---------------------------- MODULE Spec2Model ----------------------------
(***************************************************************************)
(* Controller command of Watchtower: Command.Run (startup stages and the   *)
(* listener purpose checks), Command.WaitForInterrupt (the signal driven   *)
(* event loop), Command.Reload (the reload callback pass) and the          *)
(* Controller object (New, Start, Shutdown, SetLogLevel).                  *)
(***************************************************************************)
EXTENDS Naturals, Integers, Sequences, FiniteSets, TLC

(***************************************************************************)
(* Bounds of the model.                                                    *)
(***************************************************************************)
\* Longest configured listener list that is enumerated.
MaxListeners == 2
\* Most purpose entries in one listener list, summed over its listeners.
MaxPurposeEntries == 3
\* Number of loggers that logging setup hands to the server.
MaxLoggers == 2
\* Most signals delivered to the process during one run.
MaxSignals == 2
\* Most callbacks registered by the registering parties.
MaxCallbacks == 2
\* Most direct calls of Reload.
MaxReloads == 1
\* Most calls of WaitForInterrupt on one Command.
MaxLoopRuns == 2
\* Largest number of calls of one function that is counted exactly.
MaxCalls == 2
\* Number of distinct identifiers a path segment is drawn from.
MaxIds == 2

(***************************************************************************)
(* State.                                                                  *)
(***************************************************************************)
VARIABLES
    \* Command.Run
    runPc,          \* position of Command.Run
    exitCode,       \* value returned by Run (NoExit while it has not returned)
    Config,         \* c.Config: [Listeners, DisableMlock]
    loadedListeners, \* the listener list as the configuration was loaded with it
    flagDev,        \* c.flagDev
    flagConfig,     \* c.flagConfig, as the fact "a path is set"
    stages,         \* the collaborator calls Run has made, in order
    uiErrors,       \* the errors printed with c.UI.Error
    ShutdownFuncs,  \* c.ShutdownFuncs, in registration order
    deferred,       \* whether "defer c.RunShutdownFuncs" has been executed
    shutdownFuncsRun, \* the shutdown actions that have been run, in order
    \* Controller
    controller,     \* c.controller: whether it is set, and what it has done
    AllLoggers,     \* conf.AllLoggers: the loggers, each with its identity and level
    levelCall,      \* a call of SetLogLevel in progress, logger by logger
    calls,          \* how often each collaborator was invoked
    \* Command.WaitForInterrupt
    loopPc,         \* position of the event loop
    shutdownTriggered, \* the loop's local variable
    pending,        \* signals delivered and not yet received, in arrival order
    shutdownClosed, \* whether ShutdownCh has been closed
    arrived,        \* how many signals have been delivered
    loopRuns,       \* how often WaitForInterrupt has been entered
    lastBranch,     \* the branch the last reload handler took
    newConf,        \* the configuration the last reload handler loaded, if any
    \* Command.Reload
    ReloadFuncs,    \* c.ReloadFuncs: key -> sequence of callbacks
    reloadPc,       \* position of Reload
    reloadCaller,   \* who called Reload: the event loop or a direct caller
    keysLeft,       \* keys the range loop has not visited yet
    curKey,         \* key whose callbacks are being invoked
    curIdx,         \* index of the next callback under curKey
    reloadErrors,   \* the multierror being built: ids of the failed callbacks
    invoked,        \* ids of the callbacks invoked by this Reload, in order
    reloadResult,   \* what the last Reload returned
    acked,          \* whether the last Reload delivered on ReloadedCh
    \* c.ReloadFuncsLock and the registering parties
    rwReaders,      \* number of holders of shared access
    rwWriter,       \* holder of exclusive access, or NoOne
    reg,            \* position of each registering party
    nextId,         \* id given to the next registered callback
    \* The HostService gateway
    request,        \* the HTTP request handed to the mux: [method, path]
    routed          \* what the mux did with it: the operation and its path parameters

cfgVars == <<Config, loadedListeners, flagDev, flagConfig>>
runVars == <<runPc, exitCode, stages, uiErrors, ShutdownFuncs, deferred, shutdownFuncsRun>>
ctlVars == <<controller, AllLoggers, calls>>
lvlVars == <<levelCall>>
loopVars == <<loopPc, shutdownTriggered, lastBranch, newConf, loopRuns>>
sigVars == <<pending, shutdownClosed, arrived>>
reloadVars == <<reloadPc, reloadCaller, keysLeft, curKey, curIdx, reloadErrors,
                invoked, reloadResult, acked>>
lockVars == <<ReloadFuncs, rwReaders, rwWriter, reg, nextId>>
gwVars == <<request, routed>>
vars == <<cfgVars, runVars, ctlVars, lvlVars, loopVars, sigVars, reloadVars, lockVars, gwVars>>
\* Everything the startup stages before listener setup leave alone.
laterVars == <<loopVars, sigVars, reloadVars, lockVars>>

(***************************************************************************)
(* Values.                                                                 *)
(***************************************************************************)
NoExit == -1
Levels == {"Trace", "Debug", "Info", "Warn", "Error"}
\* The levels logging setup is started with.
StartLevels == {"Info"}
\* A logger: who it is and the level it logs at.
Logger(id, level) == [id |-> id, level |-> level]
\* No call of SetLogLevel has been made.
NoLevelCall == [pc |-> "idle", level |-> "none", idx |-> 0, before |-> <<>>, order |-> <<>>]
CallNames == {"LockMemory", "startListeners", "stopListeners", "LoadFile",
              "SetLogLevel", "Reload", "Stack", "<-SighupCh"}

\* c.controller before Command.Start.
NoController == [made |-> FALSE, memLocked |-> FALSE, listeners |-> "down"]

Listener(purpose, tlsDisable) == [Purpose |-> purpose, TLSDisable |-> tlsDisable]

\* c.Config before it is loaded.
NoConfig == [Listeners |-> <<>>, DisableMlock |-> FALSE]

\* The listener lists the whole-program specification loads.
SampleListeners ==
    { <<Listener(<<>>, FALSE)>>,
      <<Listener(<<"api">>, TRUE), Listener(<<"cluster">>, FALSE)>>,
      <<Listener(<<"cluster">>, FALSE)>>,
      <<Listener(<<"api">>, FALSE)>>,
      <<Listener(<<"api", "cluster">>, TRUE)>> }

(***************************************************************************)
(* Command.Run: the startup stages.                                        *)
(***************************************************************************)
\* c.RunShutdownFuncs(c.UI): the registered shutdown actions are run, in the
\* order of their registration; ran is what has been run before.
RunShutdownFuncs(ran, funcs) == ran \o funcs

\* Run returns `code` after printing `errs`; the deferred RunShutdownFuncs
\* runs on the way out if the defer statement was reached.
Return(code, errs, isDeferred) ==
    /\ runPc' = "returned"
    /\ exitCode' = code
    /\ uiErrors' = uiErrors \cup errs
    /\ deferred' = isDeferred
    /\ shutdownFuncsRun' =
          IF isDeferred THEN RunShutdownFuncs(shutdownFuncsRun, ShutdownFuncs)
                        ELSE shutdownFuncsRun

\* Run goes on to the stage `next`.
Proceed(next) ==
    /\ runPc' = next
    /\ UNCHANGED <<gwVars, lvlVars, exitCode, uiErrors, deferred, shutdownFuncsRun>>

\* c.ParseFlagsAndConfig(args): flag parsing, then the configuration file or
\* the dev configuration.
ParseFlagsAndConfig ==
    /\ runPc = "ParseFlagsAndConfig"
    /\ stages' = Append(stages, "ParseFlagsAndConfig")
    /\ \E parseOk \in BOOLEAN, dev \in BOOLEAN, path \in BOOLEAN, loadOk \in BOOLEAN,
          ls \in SampleListeners, noMlock \in BOOLEAN :
          IF ~parseOk
          THEN /\ Return(1, {"flag parse error"}, FALSE)
               /\ UNCHANGED cfgVars
          ELSE /\ flagDev' = dev
               /\ flagConfig' = path
               /\ IF ~dev /\ ~path
                  THEN /\ Return(1, {"Must specify a config file using -config"}, FALSE)
                       /\ UNCHANGED <<Config, loadedListeners>>
                  ELSE IF ~loadOk
                  THEN /\ Return(1, {IF dev THEN "Error creating dev config"
                                            ELSE "Error parsing config"}, FALSE)
                       /\ UNCHANGED <<Config, loadedListeners>>
                  ELSE /\ Config' = [Listeners |-> ls, DisableMlock |-> noMlock]
                       /\ loadedListeners' = ls
                       /\ Proceed("SetupLogging")
    /\ UNCHANGED <<gwVars, lvlVars, ShutdownFuncs, ctlVars, laterVars>>

\* c.SetupLogging(...): on success the server holds its loggers.
SetupLogging ==
    /\ runPc = "SetupLogging"
    /\ stages' = Append(stages, "SetupLogging")
    /\ \E ok \in BOOLEAN, lvl \in StartLevels :
          IF ok
          THEN /\ AllLoggers' = [i \in 1..MaxLoggers |-> Logger(i, lvl)]
               /\ Proceed("StartMemProfiler")
          ELSE /\ AllLoggers' = AllLoggers
               /\ Return(1, {"SetupLogging error"}, FALSE)
    /\ UNCHANGED <<gwVars, lvlVars, cfgVars, ShutdownFuncs, controller, calls, laterVars>>

\* base.StartMemProfiler(c.Logger): no result is examined.
StartMemProfiler ==
    /\ runPc = "StartMemProfiler"
    /\ stages' = Append(stages, "StartMemProfiler")
    /\ Proceed("SetupMetrics")
    /\ UNCHANGED <<gwVars, lvlVars, cfgVars, ShutdownFuncs, ctlVars, laterVars>>

\* A plausible slip: the error of SetupMetrics is printed and Run goes on.
SetupMetricsIgnoringError ==
    /\ runPc = "SetupMetrics"
    /\ stages' = Append(stages, "SetupMetrics")
    /\ \E ok \in BOOLEAN :
          /\ runPc' = "SetupKMSes"
          /\ uiErrors' = IF ok THEN uiErrors ELSE uiErrors \cup {"SetupMetrics error"}
          /\ UNCHANGED <<exitCode, deferred, shutdownFuncsRun>>
    /\ UNCHANGED <<gwVars, lvlVars, cfgVars, ShutdownFuncs, ctlVars, laterVars>>

\* c.SetupMetrics(...).
SetupMetrics ==
    /\ runPc = "SetupMetrics"
    /\ stages' = Append(stages, "SetupMetrics")
    /\ \E ok \in BOOLEAN :
          IF ok THEN Proceed("SetupKMSes") ELSE Return(1, {"SetupMetrics error"}, FALSE)
    /\ UNCHANGED <<gwVars, lvlVars, cfgVars, ShutdownFuncs, ctlVars, laterVars>>

\* c.SetupKMSes(c.UI, c.Config.SharedConfig, 2).
SetupKMSes ==
    /\ runPc = "SetupKMSes"
    /\ stages' = Append(stages, "SetupKMSes")
    /\ \E ok \in BOOLEAN :
          IF ok THEN Proceed("MlockWarning") ELSE Return(1, {"SetupKMSes error"}, FALSE)
    /\ UNCHANGED <<gwVars, lvlVars, cfgVars, ShutdownFuncs, ctlVars, laterVars>>

\* The warning printed when mlock is not supported: it never ends Run.
MlockWarning ==
    /\ runPc = "MlockWarning"
    /\ \E supported \in BOOLEAN :
          stages' = IF ~flagDev /\ ~Config.DisableMlock /\ ~supported
                    THEN Append(stages, "Warn mlock not supported")
                    ELSE stages
    /\ Proceed("ListenerChecks")
    /\ UNCHANGED <<gwVars, lvlVars, cfgVars, ShutdownFuncs, ctlVars, laterVars>>

(***************************************************************************)
(* Listener purpose checks of Command.Run.                                 *)
(***************************************************************************)
\* The purpose strings that are enumerated: the two the code knows and one
\* it does not.
Purposes == {"api", "cluster", "bogus"}

ErrNone == "none"
ErrUnknownPurpose == "Unknown listener purpose"
ErrInvalidPurposeSet == "Invalid listener purpose set"
ErrTLSDisabled == "TLS cannot be disabled on listener when serving both purposes"
ErrNoCluster == "No listener marked for cluster purpose found"

\* strutil.StrListContains(haystack, needle).
StrListContains(haystack, needle) ==
    \E i \in 1..Len(haystack) : haystack[i] = needle

\* State of the checking loop: the two flags, the error printed (if any) and
\* the listener list, whose entries the loop updates through their pointers.
CheckState(ls) ==
    [foundCluster |-> FALSE, foundAPI |-> FALSE, err |-> ErrNone, Listeners |-> ls]

\* case 1 of the switch: one declared purpose.
SinglePurpose(st, i) ==
    LET p == st.Listeners[i].Purpose[1] IN
    CASE p = "cluster" -> [st EXCEPT !.foundCluster = TRUE]
      [] p = "api"     -> [st EXCEPT !.foundAPI = TRUE]
      [] OTHER         -> [st EXCEPT !.err = ErrUnknownPurpose]

\* A plausible slip: case 2 rejects a purpose set only when it has neither
\* api nor cluster (&& in place of ||).
BothPurposesEitherSuffices(st, i) ==
    LET ln == st.Listeners[i] IN
    IF ~StrListContains(ln.Purpose, "api") /\ ~StrListContains(ln.Purpose, "cluster")
    THEN [st EXCEPT !.err = ErrInvalidPurposeSet]
    ELSE IF ln.TLSDisable
         THEN [st EXCEPT !.err = ErrTLSDisabled]
         ELSE [st EXCEPT !.foundAPI = TRUE, !.foundCluster = TRUE]

\* A plausible slip: case 2 without the test of TLSDisable.
BothPurposesIgnoringTLS(st, i) ==
    LET ln == st.Listeners[i] IN
    IF ~StrListContains(ln.Purpose, "api") \/ ~StrListContains(ln.Purpose, "cluster")
    THEN [st EXCEPT !.err = ErrInvalidPurposeSet]
    ELSE [st EXCEPT !.foundAPI = TRUE, !.foundCluster = TRUE]

\* case 2 of the switch (also reached from case 0 by fallthrough).
BothPurposes(st, i) ==
    LET ln == st.Listeners[i] IN
    IF ~StrListContains(ln.Purpose, "api") \/ ~StrListContains(ln.Purpose, "cluster")
    THEN [st EXCEPT !.err = ErrInvalidPurposeSet]
    ELSE IF ln.TLSDisable
         THEN [st EXCEPT !.err = ErrTLSDisabled]
         ELSE [st EXCEPT !.foundAPI = TRUE, !.foundCluster = TRUE]

\* A plausible slip: case 0 without its fallthrough.
DefaultPurposeNoFallthrough(st, i) ==
    [st EXCEPT !.Listeners[i].Purpose = <<"api", "cluster">>]

\* case 0 of the switch: the purposes are defaulted, then case 2 runs.
DefaultPurpose(st, i) ==
    BothPurposes([st EXCEPT !.Listeners[i].Purpose = <<"api", "cluster">>], i)

\* The switch on len(lnConfig.Purpose); it has no default case.
CheckListener(st, i) ==
    LET n == Len(st.Listeners[i].Purpose) IN
    CASE n = 1 -> SinglePurpose(st, i)
      [] n = 0 -> DefaultPurpose(st, i)
      [] n = 2 -> BothPurposes(st, i)
      [] OTHER -> st

\* A plausible slip: the check after the loop is left out.
TopologyCheckOmitted(st) == st

\* A plausible slip: the check after the loop demands both flags to agree.
TopologyCheckSymmetric(st) ==
    IF st.foundAPI # st.foundCluster
    THEN [st EXCEPT !.err = ErrNoCluster]
    ELSE st

\* The check after the loop: api without cluster is rejected.
TopologyCheck(st) ==
    IF st.foundAPI /\ ~st.foundCluster
    THEN [st EXCEPT !.err = ErrNoCluster]
    ELSE st

\* The range loop over c.Config.Listeners, returning at the first error.
RECURSIVE ListenerLoop(_, _)
ListenerLoop(st, i) ==
    IF i > Len(st.Listeners)
    THEN TopologyCheck(st)
    ELSE LET r == CheckListener(st, i) IN
         IF r.err # ErrNone THEN r ELSE ListenerLoop(r, i + 1)

\* The whole of the listener checks on a listener list.
ListenerChecks(ls) == ListenerLoop(CheckState(ls), 1)

(***************************************************************************)
(* The reload registry: keys are strings, written as sequences of          *)
(* characters so that the prefix test is computed.                         *)
(***************************************************************************)
\* The prefix "listener|".
ListenerPrefix == <<"l", "i", "s", "t", "e", "n", "e", "r", "|">>

\* strings.HasPrefix(s, prefix).
HasPrefix(s, prefix) ==
    /\ Len(s) >= Len(prefix)
    /\ \A i \in 1..Len(prefix) : s[i] = prefix[i]

ListenerKey(id) == ListenerPrefix \o <<id>>
\* The instance names of the listeners, by position in the configuration.
ListenerIds == <<"1", "2">>
ListenerKeys == {ListenerKey(ListenerIds[i]) : i \in 1..Len(ListenerIds)}
\* A key of another kind of resource.
OtherKey == <<"s", "t", "o", "r", "e", "|", "1">>
Keys == ListenerKeys \cup {OtherKey}
NoKey == <<>>

\* A registered callback: the order number of its registration and what it
\* does when invoked ("nil" is a nil function value, which is never invoked;
\* "register" registers a further callback and returns nil).
Callback(id, kind) == [id |-> id, kind |-> kind]
PlainKinds == {"nil", "ok", "fail"}
Kinds == PlainKinds \cup {"register"}

EmptyRegistry == [k \in Keys |-> <<>>]

\* append(c.ReloadFuncs[key], relFunc), stored back under key.
Registered(funcs, key, cb) == [funcs EXCEPT ![key] = Append(@, cb)]

NoOne == "none"
Registrants == {"subsystem", "callback"}

(***************************************************************************)
(* Command.Run: listener checks and the stages after them.                 *)
(***************************************************************************)
\* A plausible slip: the error of the listener checks is printed and Run
\* goes on to listener setup.
CheckListenersContinuing ==
    /\ runPc = "ListenerChecks"
    /\ stages' = Append(stages, "ListenerChecks")
    /\ LET st == ListenerChecks(Config.Listeners) IN
          /\ Config' = [Config EXCEPT !.Listeners = st.Listeners]
          /\ uiErrors' = IF st.err # ErrNone THEN uiErrors \cup {st.err} ELSE uiErrors
          /\ runPc' = "SetupListeners"
          /\ UNCHANGED <<exitCode, deferred, shutdownFuncsRun>>
    /\ UNCHANGED <<gwVars, lvlVars, loadedListeners, flagDev, flagConfig, ShutdownFuncs, ctlVars, laterVars>>

\* The listener checks of Run: the list is checked, an empty purpose list is
\* replaced by its default in the configuration, and Run returns 1 on error.
CheckListeners ==
    /\ runPc = "ListenerChecks"
    /\ stages' = Append(stages, "ListenerChecks")
    /\ LET st == ListenerChecks(Config.Listeners) IN
          /\ Config' = [Config EXCEPT !.Listeners = st.Listeners]
          /\ IF st.err # ErrNone
             THEN Return(1, {st.err}, FALSE)
             ELSE Proceed("SetupListeners")
    /\ UNCHANGED <<gwVars, lvlVars, loadedListeners, flagDev, flagConfig, ShutdownFuncs, ctlVars, laterVars>>

\* The registry after the listeners id..n have registered their callbacks,
\* listener i under the key "listener|<i>" with the kind kindOf[i].
RECURSIVE RegisterListeners(_, _, _, _)
RegisterListeners(funcs, n, id, kindOf) ==
    IF id > n THEN funcs
    ELSE RegisterListeners(
             Registered(funcs, ListenerKey(ListenerIds[id]), Callback(id, kindOf[id])),
             n, id + 1, kindOf)

\* A plausible slip: the error of SetupListeners is printed and Run goes on.
SetupListenersContinuing ==
    /\ runPc = "SetupListeners"
    /\ stages' = Append(stages, "SetupListeners")
    /\ LET n == Len(Config.Listeners) IN
       \E ok \in BOOLEAN, kindOf \in [1..n -> {"ok", "fail"}] :
          /\ IF ok
             THEN /\ ReloadFuncs' = RegisterListeners(ReloadFuncs, n, 1, kindOf)
                  /\ nextId' = n + 1
                  /\ uiErrors' = uiErrors
             ELSE /\ UNCHANGED <<ReloadFuncs, nextId>>
                  /\ uiErrors' = uiErrors \cup {"SetupListeners error"}
          /\ runPc' = "StorePidFile"
          /\ UNCHANGED <<exitCode, deferred, shutdownFuncsRun>>
    /\ UNCHANGED <<gwVars, lvlVars, cfgVars, ShutdownFuncs, ctlVars, loopVars, sigVars, reloadVars,
                   rwReaders, rwWriter, reg>>

\* c.SetupListeners(...): on success every configured listener is bound and
\* its reload callback is registered under a "listener|" key.
SetupListeners ==
    /\ runPc = "SetupListeners"
    /\ stages' = Append(stages, "SetupListeners")
    /\ LET n == Len(Config.Listeners) IN
       \E ok \in BOOLEAN, kindOf \in [1..n -> {"ok", "fail"}] :
          IF ok
          THEN /\ ReloadFuncs' = RegisterListeners(ReloadFuncs, n, 1, kindOf)
               /\ nextId' = n + 1
               /\ Proceed("StorePidFile")
          ELSE /\ UNCHANGED <<ReloadFuncs, nextId>>
               /\ Return(1, {"SetupListeners error"}, FALSE)
    /\ UNCHANGED <<gwVars, lvlVars, cfgVars, ShutdownFuncs, ctlVars, loopVars, sigVars, reloadVars,
                   rwReaders, rwWriter, reg>>

\* A plausible slip: the shutdown actions are deferred before the PID file
\* is stored, so that a failure to store it runs them.
StorePidFileAfterDefer ==
    /\ runPc = "StorePidFile"
    /\ stages' = Append(stages, "StorePidFile")
    /\ \E ok \in BOOLEAN :
          IF ok THEN Proceed("CreateDevDatabase") ELSE Return(1, {"Error storing PID"}, TRUE)
    /\ UNCHANGED <<gwVars, lvlVars, cfgVars, ShutdownFuncs, ctlVars, laterVars>>

\* c.StorePidFile(c.Config.PidFile).
StorePidFile ==
    /\ runPc = "StorePidFile"
    /\ stages' = Append(stages, "StorePidFile")
    /\ \E ok \in BOOLEAN :
          IF ok THEN Proceed("CreateDevDatabase") ELSE Return(1, {"Error storing PID"}, FALSE)
    /\ UNCHANGED <<gwVars, lvlVars, cfgVars, ShutdownFuncs, ctlVars, laterVars>>

\* A plausible slip: the dev database is created and its teardown is not
\* registered.
CreateDevDatabaseUnregistered ==
    /\ runPc = "CreateDevDatabase"
    /\ IF flagDev
       THEN /\ stages' = Append(stages, "CreateDevDatabase")
            /\ \E ok \in BOOLEAN :
                  IF ok
                  THEN Proceed("Start")
                  ELSE Return(1, {"Error creating dev database container"}, FALSE)
       ELSE /\ UNCHANGED stages
            /\ Proceed("Start")
    /\ UNCHANGED <<gwVars, lvlVars, cfgVars, ShutdownFuncs, ctlVars, laterVars>>

\* In dev mode: c.CreateDevDatabase(), and its teardown is registered.
CreateDevDatabase ==
    /\ runPc = "CreateDevDatabase"
    /\ IF flagDev
       THEN /\ stages' = Append(stages, "CreateDevDatabase")
            /\ \E ok \in BOOLEAN :
                  IF ok
                  THEN /\ ShutdownFuncs' = Append(ShutdownFuncs, "DestroyDevDatabase")
                       /\ Proceed("Start")
                  ELSE /\ ShutdownFuncs' = ShutdownFuncs
                       /\ Return(1, {"Error creating dev database container"}, FALSE)
       ELSE /\ UNCHANGED <<stages, ShutdownFuncs>>
            /\ Proceed("Start")
    /\ UNCHANGED <<gwVars, lvlVars, cfgVars, ctlVars, laterVars>>

(***************************************************************************)
(* Controller: New, Start, Shutdown, SetLogLevel.                          *)
(***************************************************************************)
\* The call counters after one more call of name; counts above MaxCalls are
\* not told apart.
Called(c, name) == [c EXCEPT ![name] = IF @ < MaxCalls THEN @ + 1 ELSE @]

\* A plausible slip: a failure to lock memory is not treated as an error.
ControllerNewLockOptional(ctl, cnt, disableMlock, lockOk) ==
    IF disableMlock
    THEN [err |-> FALSE, calls |-> cnt, controller |-> [ctl EXCEPT !.made = TRUE]]
    ELSE [err |-> FALSE, calls |-> Called(cnt, "LockMemory"),
          controller |-> [ctl EXCEPT !.made = TRUE, !.memLocked = lockOk]]

\* controller.New(conf): memory is locked unless DisableMlock is set; a
\* failure to lock is an error and no Controller is produced.  The logger
\* handed over by Run is never nil, so no logger is created here.
ControllerNew(ctl, cnt, disableMlock, lockOk) ==
    IF disableMlock
    THEN [err |-> FALSE, calls |-> cnt, controller |-> [ctl EXCEPT !.made = TRUE]]
    ELSE IF lockOk
    THEN [err |-> FALSE, calls |-> Called(cnt, "LockMemory"),
          controller |-> [ctl EXCEPT !.made = TRUE, !.memLocked = TRUE]]
    ELSE [err |-> TRUE, calls |-> Called(cnt, "LockMemory"), controller |-> ctl]

\* (*Controller).Start(): the listeners are started.
ControllerStart(ctl, cnt, startOk) ==
    [err |-> ~startOk, calls |-> Called(cnt, "startListeners"),
     controller |-> IF startOk THEN [ctl EXCEPT !.listeners = "up"] ELSE ctl]

\* (*Controller).Shutdown(): the listeners are stopped.
ControllerShutdown(ctl, cnt, stopOk) ==
    [err |-> ~stopOk, calls |-> Called(cnt, "stopListeners"),
     controller |-> [ctl EXCEPT !.listeners = "stopped"]]

\* controller.New without a logger in its configuration: a logger of level
\* Trace is made and appended to conf.AllLoggers.
NewLogger(loggers, loggerNil) ==
    IF loggerNil THEN Append(loggers, Logger(Len(loggers) + 1, "Trace")) ELSE loggers

\* logger.SetLevel(level): the logger is the same, its level is level.
SetLevel(logger, level) == [logger EXCEPT !.level = level]

\* A plausible slip: the level is handed to a goroutine and not yet applied
\* when SetLogLevel returns.
SetLogLevelNotYet(loggers, level) == loggers

\* (*Controller).SetLogLevel(level): every logger of AllLoggers, in order.
SetLogLevel(loggers, level) == [i \in 1..Len(loggers) |-> SetLevel(loggers[i], level)]

\* A plausible slip: the loop is left after the first logger.
NextLoggerFirstOnly(idx, n) == n + 1

\* The range over c.conf.AllLoggers goes on to the next index.
NextLogger(idx, n) == idx + 1

\* SetLogLevel(level) is called on the controller, as a test makes it; the
\* range expression is evaluated.  levelCall.before and levelCall.order
\* record the collection as it was and the loggers on which SetLevel has
\* been called, in the order of the calls.
SetLogLevelCall ==
    /\ levelCall.pc \in {"idle", "returned"}
    /\ loopPc = "idle"
    /\ calls["SetLogLevel"] < MaxCalls
    /\ \E level \in Levels :
          levelCall' = [pc |-> "ranging", level |-> level, idx |-> 1,
                        before |-> AllLoggers, order |-> <<>>]
    /\ calls' = Called(calls, "SetLogLevel")
    /\ UNCHANGED <<gwVars, cfgVars, runVars, controller, AllLoggers, loopVars, sigVars,
                   reloadVars, lockVars>>

\* One iteration of the range loop: logger.SetLevel(level) on the logger at
\* the current index.
SetLevelStep ==
    /\ levelCall.pc = "ranging"
    /\ levelCall.idx <= Len(AllLoggers)
    /\ AllLoggers' = [AllLoggers EXCEPT ![levelCall.idx] = SetLevel(@, levelCall.level)]
    /\ levelCall' = [levelCall EXCEPT !.idx = NextLogger(@, Len(AllLoggers)),
                                      !.order = Append(@, AllLoggers[levelCall.idx].id)]
    /\ UNCHANGED <<gwVars, cfgVars, runVars, controller, calls, loopVars, sigVars,
                   reloadVars, lockVars>>

\* The range loop is over: SetLogLevel returns.
SetLogLevelReturn ==
    /\ levelCall.pc = "ranging"
    /\ levelCall.idx > Len(AllLoggers)
    /\ levelCall' = [levelCall EXCEPT !.pc = "returned"]
    /\ UNCHANGED <<gwVars, cfgVars, runVars, ctlVars, loopVars, sigVars, reloadVars, lockVars>>

\* A plausible slip: the defer statement stands after c.Start(), so that a
\* failed start returns before the shutdown actions are deferred.
StartBeforeDefer ==
    /\ runPc = "Start"
    /\ stages' = Append(stages, "Start")
    /\ \E loggerNil \in BOOLEAN, lockOk \in BOOLEAN, startOk \in BOOLEAN, stopOk \in BOOLEAN :
          LET new == ControllerNew(controller, calls, Config.DisableMlock, lockOk)
              started == ControllerStart(new.controller, new.calls, startOk)
              stopped == ControllerShutdown(started.controller, started.calls, stopOk)
          IN  /\ AllLoggers' = NewLogger(AllLoggers, loggerNil)
              /\ IF new.err
                 THEN /\ controller' = new.controller
                      /\ calls' = new.calls
                      /\ Return(1, {"Error initializing controller"}, FALSE)
                 ELSE IF started.err
                 THEN /\ controller' = stopped.controller
                      /\ calls' = stopped.calls
                      /\ Return(1, {"Error starting controller"}, FALSE)
                 ELSE /\ controller' = started.controller
                      /\ calls' = started.calls
                      /\ runPc' = "WaitForInterrupt"
                      /\ deferred' = TRUE
                      /\ UNCHANGED <<exitCode, uiErrors, shutdownFuncsRun>>
    /\ UNCHANGED <<gwVars, lvlVars, cfgVars, ShutdownFuncs, laterVars>>

\* A plausible slip: the error of the controller's Start is dropped and Run
\* goes on to the event loop.
StartIgnoringError ==
    /\ runPc = "Start"
    /\ stages' = Append(stages, "Start")
    /\ \E loggerNil \in BOOLEAN, lockOk \in BOOLEAN, startOk \in BOOLEAN :
          LET new == ControllerNew(controller, calls, Config.DisableMlock, lockOk)
              started == ControllerStart(new.controller, new.calls, startOk)
          IN  /\ AllLoggers' = NewLogger(AllLoggers, loggerNil)
              /\ IF new.err
                 THEN /\ controller' = new.controller
                      /\ calls' = new.calls
                      /\ Return(1, {"Error initializing controller"}, TRUE)
                 ELSE /\ controller' = started.controller
                      /\ calls' = started.calls
                      /\ runPc' = "WaitForInterrupt"
                      /\ deferred' = TRUE
                      /\ UNCHANGED <<exitCode, uiErrors, shutdownFuncsRun>>
    /\ UNCHANGED <<gwVars, lvlVars, cfgVars, ShutdownFuncs, laterVars>>

\* A plausible slip: a failed start of the controller is not rolled back.
StartWithoutRollback ==
    /\ runPc = "Start"
    /\ stages' = Append(stages, "Start")
    /\ \E loggerNil \in BOOLEAN, lockOk \in BOOLEAN, startOk \in BOOLEAN :
          LET new == ControllerNew(controller, calls, Config.DisableMlock, lockOk)
              started == ControllerStart(new.controller, new.calls, startOk)
          IN  /\ AllLoggers' = NewLogger(AllLoggers, loggerNil)
              /\ IF new.err
                 THEN /\ controller' = new.controller
                      /\ calls' = new.calls
                      /\ Return(1, {"Error initializing controller"}, TRUE)
                 ELSE IF started.err
                 THEN /\ controller' = started.controller
                      /\ calls' = started.calls
                      /\ Return(1, {"Error starting controller"}, TRUE)
                 ELSE /\ controller' = started.controller
                      /\ calls' = started.calls
                      /\ runPc' = "WaitForInterrupt"
                      /\ deferred' = TRUE
                      /\ UNCHANGED <<exitCode, uiErrors, shutdownFuncsRun>>
    /\ UNCHANGED <<gwVars, lvlVars, cfgVars, ShutdownFuncs, laterVars>>

\* The rest of Run: the deferred RunShutdownFuncs is set up, then
\* Command.Start constructs and starts the controller (a failed start is
\* followed by Shutdown) and Run goes on to WaitForInterrupt.
Start ==
    /\ runPc = "Start"
    /\ stages' = Append(stages, "Start")
    /\ \E loggerNil \in BOOLEAN, lockOk \in BOOLEAN, startOk \in BOOLEAN, stopOk \in BOOLEAN :
          LET new == ControllerNew(controller, calls, Config.DisableMlock, lockOk)
              started == ControllerStart(new.controller, new.calls, startOk)
              stopped == ControllerShutdown(started.controller, started.calls, stopOk)
          IN  /\ AllLoggers' = NewLogger(AllLoggers, loggerNil)
              /\ IF new.err
                 THEN /\ controller' = new.controller
                      /\ calls' = new.calls
                      /\ Return(1, {"Error initializing controller"}, TRUE)
                 ELSE IF started.err
                 THEN /\ controller' = stopped.controller
                      /\ calls' = stopped.calls
                      /\ Return(1, IF stopped.err
                                   THEN {"Error starting controller",
                                         "Error with controller shutdown"}
                                   ELSE {"Error starting controller"}, TRUE)
                 ELSE /\ controller' = started.controller
                      /\ calls' = started.calls
                      /\ runPc' = "WaitForInterrupt"
                      /\ deferred' = TRUE
                      /\ UNCHANGED <<exitCode, uiErrors, shutdownFuncsRun>>
    /\ UNCHANGED <<gwVars, lvlVars, cfgVars, ShutdownFuncs, laterVars>>

(***************************************************************************)
(* Strings of the reload handler, as sequences of characters.              *)
(***************************************************************************)
\* A character is a one-character string; the vertical tab and the characters
\* outside of ASCII are written as their code points.
UpperCase == <<"A", "B", "C", "D", "E", "F", "G", "H", "I", "J", "K", "L", "M", "N", "O", "P", "Q", "R", "S", "T", "U", "V", "W", "X", "Y", "Z">>
LowerCase == <<"a", "b", "c", "d", "e", "f", "g", "h", "i", "j", "k", "l", "m", "n", "o", "p", "q", "r", "s", "t", "u", "v", "w", "x", "y", "z">>

\* Capitals outside of ASCII with what unicode.ToLower makes of them: the
\* dotted capital I and the Kelvin sign become ASCII letters, the others
\* (two of them stand for all) stay outside of ASCII.
UnicodeUpper == <<"U+0130", "U+212A", "U+00C9", "U+0394">>
UnicodeLower == <<"i", "k", "U+00E9", "U+03B4">>

\* unicode.IsSpace: what strings.TrimSpace removes.
WhiteSpace ==
    {"\t", "\n", "U+000B", "\f", "\r", " ", "U+0085", "U+00A0", "U+1680",
     "U+2000", "U+2001", "U+2002", "U+2003", "U+2004", "U+2005", "U+2006",
     "U+2007", "U+2008", "U+2009", "U+200A", "U+2028", "U+2029", "U+202F",
     "U+205F", "U+3000"}

\* strings.ToLower(s), rune by rune.
ToLowerChar(c) ==
    IF \E i \in 1..Len(UpperCase) : UpperCase[i] = c
    THEN LowerCase[CHOOSE i \in 1..Len(UpperCase) : UpperCase[i] = c]
    ELSE IF \E i \in 1..Len(UnicodeUpper) : UnicodeUpper[i] = c
    THEN UnicodeLower[CHOOSE i \in 1..Len(UnicodeUpper) : UnicodeUpper[i] = c]
    ELSE c
ToLower(s) == [i \in 1..Len(s) |-> ToLowerChar(s[i])]

\* strings.TrimSpace(s): leading and trailing white space is removed.
RECURSIVE TrimLeft(_)
TrimLeft(s) ==
    IF s # <<>> /\ Head(s) \in WhiteSpace THEN TrimLeft(Tail(s)) ELSE s
RECURSIVE TrimRight(_)
TrimRight(s) ==
    IF s # <<>> /\ s[Len(s)] \in WhiteSpace
    THEN TrimRight(SubSeq(s, 1, Len(s) - 1))
    ELSE s
TrimSpace(s) == TrimRight(TrimLeft(s))

\* No configuration has been loaded by a reload: the path is empty, or
\* LoadFile failed or returned nil.
NoNewConf == [loaded |-> FALSE, LogLevel |-> <<>>]

\* The values of LogLevel that a reloaded configuration is given.
RawLevels ==
    { <<>>,
      <<"t", "r", "a", "c", "e">>,
      <<"D", "e", "b", "u", "g">>,
      <<"i", "n", "f", "o">>,
      <<"n", "o", "t", "i", "c", "e">>,
      <<" ", "W", "A", "R", "N", "\t">>,
      <<"w", "a", "r", "n", "i", "n", "g">>,
      <<"e", "r", "r">>,
      <<"E", "R", "R", "O", "R">>,
      <<"b", "o", "g", "u", "s">>,
      <<" ">>,
      <<"U+00A0", "\f">>,
      <<"U+000B", "U+0130", "N", "F", "O", "U+0085">>,
      <<"d", "e", " ", "b", "u", "g">> }

\* A plausible slip: the switch has no case for the empty string.
LevelOfNonEmpty(configLogLevel) ==
    CASE configLogLevel = <<"t", "r", "a", "c", "e">> -> "Trace"
      [] configLogLevel = <<"d", "e", "b", "u", "g">> -> "Debug"
      [] configLogLevel \in {<<"n", "o", "t", "i", "c", "e">>, <<"i", "n", "f", "o">>} -> "Info"
      [] configLogLevel \in {<<"w", "a", "r", "n">>, <<"w", "a", "r", "n", "i", "n", "g">>} -> "Warn"
      [] configLogLevel \in {<<"e", "r", "r">>, <<"e", "r", "r", "o", "r">>} -> "Error"
      [] OTHER -> "unknown"

\* The switch on configLogLevel: the hclog level, or "unknown".
LevelOf(configLogLevel) ==
    CASE configLogLevel = <<"t", "r", "a", "c", "e">> -> "Trace"
      [] configLogLevel = <<"d", "e", "b", "u", "g">> -> "Debug"
      [] configLogLevel \in {<<"n", "o", "t", "i", "c", "e">>, <<"i", "n", "f", "o">>, <<>>} -> "Info"
      [] configLogLevel \in {<<"w", "a", "r", "n">>, <<"w", "a", "r", "n", "i", "n", "g">>} -> "Warn"
      [] configLogLevel \in {<<"e", "r", "r">>, <<"e", "r", "r", "o", "r">>} -> "Error"
      [] OTHER -> "unknown"

\* A plausible slip: a configuration that cannot be used ends the handler
\* (as a "continue" would) instead of going to RUNRELOADFUNCS.
ReloadBranchSkipping(pathSet, loaded, rawLevel) ==
    IF ~pathSet THEN [branch |-> "nopath", level |-> "unknown", next |-> "RUNRELOADFUNCS"]
    ELSE IF loaded = "err" THEN [branch |-> "loaderr", level |-> "unknown", next |-> "select"]
    ELSE IF loaded = "nil" THEN [branch |-> "nilconf", level |-> "unknown", next |-> "select"]
    ELSE IF rawLevel = <<>>
    THEN [branch |-> "emptylevel", level |-> "unknown", next |-> "RUNRELOADFUNCS"]
    ELSE LET level == LevelOf(ToLower(TrimSpace(rawLevel))) IN
         IF level = "unknown"
         THEN [branch |-> "unknownlevel", level |-> "unknown", next |-> "select"]
         ELSE [branch |-> "setlevel", level |-> level, next |-> "RUNRELOADFUNCS"]

\* The reload handler up to its last statement: which way it takes, the level
\* it hands to SetLogLevel ("unknown" when it does not call it) and where it
\* goes next; every goto and the fall through lead to RUNRELOADFUNCS.
\* loaded is what config.LoadFile returned: "err", "nil" or "conf".
ReloadBranch(pathSet, loaded, rawLevel) ==
    IF ~pathSet THEN [branch |-> "nopath", level |-> "unknown", next |-> "RUNRELOADFUNCS"]
    ELSE IF loaded = "err"
    THEN [branch |-> "loaderr", level |-> "unknown", next |-> "RUNRELOADFUNCS"]
    ELSE IF loaded = "nil"
    THEN [branch |-> "nilconf", level |-> "unknown", next |-> "RUNRELOADFUNCS"]
    ELSE IF rawLevel = <<>>
    THEN [branch |-> "emptylevel", level |-> "unknown", next |-> "RUNRELOADFUNCS"]
    ELSE LET level == LevelOf(ToLower(TrimSpace(rawLevel))) IN
         IF level = "unknown"
         THEN [branch |-> "unknownlevel", level |-> "unknown", next |-> "RUNRELOADFUNCS"]
         ELSE [branch |-> "setlevel", level |-> level, next |-> "RUNRELOADFUNCS"]

(***************************************************************************)
(* Command.Reload.                                                         *)
(***************************************************************************)
\* The nil error; any other error is the sequence of the errors it wraps.
Nil == [isNil |-> TRUE, errors |-> <<>>]
MultiError(errs) == [isNil |-> FALSE, errors |-> errs]
NotReturned == [returned |-> FALSE, errs |-> Nil]

\* A plausible slip: shared access is taken without regard to a writer.
CanRLockUnguarded == TRUE

\* c.ReloadFuncsLock.RLock() can return: nobody holds exclusive access and
\* nobody is waiting for it.
CanRLock ==
    /\ rwWriter = NoOne
    /\ \A r \in Registrants : reg[r] # "wantLock"

\* defer c.ReloadFuncsLock.RUnlock(): shared access is kept until Reload
\* returns.
HeldUntilReturn == TRUE

\* c.ReloadFuncsLock.Lock() can return.
CanLock == rwWriter = NoOne /\ rwReaders = 0

\* A plausible slip: the first failing callback ends the loop over relFuncs.
NextIdxBreakOnError(cb, idx, n) == IF cb.kind = "fail" THEN n + 1 ELSE idx + 1

\* The loop over relFuncs goes on to the next callback whatever cb returned.
NextIdx(cb, idx, n) == idx + 1

\* A plausible slip: the error replaces the errors collected so far.
CollectedLastOnly(errs, cb) == IF cb.kind = "fail" THEN <<cb.id>> ELSE errs

\* multierror.Append(reloadErrors, ...) when relFunc returned an error.
Collected(errs, cb) == IF cb.kind = "fail" THEN Append(errs, cb.id) ELSE errs

\* reloadErrors.ErrorOrNil(): nil when nothing was collected.
ErrorOrNil(errs) == IF Len(errs) = 0 THEN Nil ELSE MultiError(errs)

\* Reload is called: nothing of the previous call is left.
CallReload(caller) ==
    /\ reloadPc' = "called"
    /\ reloadCaller' = caller
    /\ reloadResult' = NotReturned
    /\ acked' = FALSE
    /\ invoked' = <<>>
    /\ reloadErrors' = <<>>
    /\ keysLeft' = {}
    /\ curKey' = NoKey
    /\ curIdx' = 1

\* A direct call of c.Reload(), as a test makes it.
ReloadCall ==
    /\ reloadPc = "idle"
    /\ loopPc = "idle"
    /\ calls["Reload"] < MaxReloads
    /\ CallReload("direct")
    /\ calls' = Called(calls, "Reload")
    /\ UNCHANGED <<gwVars, lvlVars, cfgVars, runVars, controller, AllLoggers, loopVars, sigVars, lockVars>>

\* c.ReloadFuncsLock.RLock(), and the range loop starts over the map.
ReloadBegin ==
    /\ reloadPc = "called"
    /\ CanRLock
    /\ rwReaders' = IF HeldUntilReturn THEN rwReaders + 1 ELSE rwReaders
    /\ keysLeft' = {k \in Keys : ReloadFuncs[k] # <<>>}
    /\ reloadPc' = "ranging"
    /\ UNCHANGED <<gwVars, lvlVars, cfgVars, runVars, ctlVars, loopVars, sigVars, reloadCaller, curKey,
                   curIdx, reloadErrors, invoked, reloadResult, acked, ReloadFuncs,
                   rwWriter, reg, nextId>>

\* The callbacks under curKey are exhausted (or there is no curKey).
KeyDone == IF curKey = NoKey THEN TRUE ELSE curIdx > Len(ReloadFuncs[curKey])

\* A plausible slip: the callbacks of every key are invoked, whatever its
\* prefix.
ReloadRangeKeyAnyPrefix ==
    /\ reloadPc = "ranging"
    /\ KeyDone
    /\ \E k \in keysLeft :
          /\ keysLeft' = keysLeft \ {k}
          /\ curKey' = k
          /\ curIdx' = 1
    /\ UNCHANGED <<gwVars, lvlVars, cfgVars, runVars, ctlVars, loopVars, sigVars, reloadPc, reloadCaller,
                   reloadErrors, invoked, reloadResult, acked, lockVars>>

\* The range loop takes another key, in no particular order; only a key with
\* the prefix "listener|" has its callbacks invoked.
ReloadRangeKey ==
    /\ reloadPc = "ranging"
    /\ KeyDone
    /\ \E k \in keysLeft :
          /\ keysLeft' = keysLeft \ {k}
          /\ curKey' = IF HasPrefix(k, ListenerPrefix) THEN k ELSE NoKey
          /\ curIdx' = 1
    /\ UNCHANGED <<gwVars, lvlVars, cfgVars, runVars, ctlVars, loopVars, sigVars, reloadPc, reloadCaller,
                   reloadErrors, invoked, reloadResult, acked, lockVars>>

\* The next callback under curKey: a nil one is passed over, any other is
\* invoked and its error, if any, is collected.  A callback that registers
\* is left waiting for exclusive access.
ReloadInvoke ==
    /\ reloadPc = "ranging"
    /\ ~KeyDone
    /\ LET cb == ReloadFuncs[curKey][curIdx]
           n == Len(ReloadFuncs[curKey])
       IN  /\ invoked' = IF cb.kind = "nil" THEN invoked ELSE Append(invoked, cb.id)
           /\ reloadErrors' = Collected(reloadErrors, cb)
           /\ IF cb.kind = "register"
              THEN /\ reloadPc' = "inCallback"
                   /\ reg' = [reg EXCEPT !["callback"] = "wantLock"]
                   /\ curIdx' = curIdx
              ELSE /\ curIdx' = NextIdx(cb, curIdx, n)
                   /\ UNCHANGED <<reloadPc, reg>>
    /\ UNCHANGED <<gwVars, lvlVars, cfgVars, runVars, ctlVars, loopVars, sigVars, reloadCaller, keysLeft,
                   curKey, reloadResult, acked, ReloadFuncs, rwReaders, rwWriter, nextId>>

\* A plausible slip: the acknowledgment comes as soon as the callbacks of one
\* key are done.
ReloadAckEarly ==
    /\ reloadPc = "ranging"
    /\ KeyDone
    /\ \E observer \in BOOLEAN : acked' = observer
    /\ reloadPc' = "acked"
    /\ UNCHANGED <<gwVars, lvlVars, cfgVars, runVars, ctlVars, loopVars, sigVars, reloadCaller, keysLeft,
                   curKey, curIdx, reloadErrors, invoked, reloadResult, lockVars>>

\* The range loop is over: the acknowledgment is offered on ReloadedCh
\* without blocking, so it is delivered when an observer is receiving and
\* dropped otherwise.  Shared access is still held.
ReloadAck ==
    /\ reloadPc = "ranging"
    /\ KeyDone
    /\ keysLeft = {}
    /\ \E observer \in BOOLEAN : acked' = observer
    /\ reloadPc' = "acked"
    /\ UNCHANGED <<gwVars, lvlVars, cfgVars, runVars, ctlVars, loopVars, sigVars, reloadCaller, keysLeft,
                   curKey, curIdx, reloadErrors, invoked, reloadResult, lockVars>>

\* The end of Reload: the aggregate error is returned and shared access is
\* given up (the deferred RUnlock).
ReloadReturn ==
    /\ reloadPc = "acked"
    /\ rwReaders' = IF HeldUntilReturn THEN rwReaders - 1 ELSE rwReaders
    /\ reloadResult' = [returned |-> TRUE, errs |-> ErrorOrNil(reloadErrors)]
    /\ reloadPc' = "idle"
    /\ reloadCaller' = "none"
    /\ curKey' = NoKey
    /\ curIdx' = 1
    /\ UNCHANGED <<gwVars, lvlVars, cfgVars, runVars, ctlVars, loopVars, sigVars, keysLeft,
                   reloadErrors, invoked, acked, ReloadFuncs, rwWriter, reg, nextId>>

\* RUNRELOADFUNCS, once Reload has returned: the event loop prints the error,
\* if there is one, and goes back to its select.
AfterReload ==
    /\ loopPc = "sighup"
    /\ reloadPc = "idle"
    /\ reloadResult.returned
    /\ uiErrors' = IF reloadResult.errs # Nil
                   THEN uiErrors \cup {"Error(s) were encountered during controller reload"}
                   ELSE uiErrors
    /\ loopPc' = "top"
    /\ UNCHANGED <<gwVars, lvlVars, cfgVars, runPc, exitCode, stages, ShutdownFuncs, deferred,
                   shutdownFuncsRun, ctlVars, shutdownTriggered, lastBranch, newConf, loopRuns,
                   sigVars, reloadVars, lockVars>>

(***************************************************************************)
(* Registration of reload callbacks by other parties.                      *)
(***************************************************************************)
\* A subsystem starts to register a callback: it asks for exclusive access.
RegisterCall ==
    /\ reg["subsystem"] = "idle"
    /\ nextId <= MaxCallbacks
    /\ reg' = [reg EXCEPT !["subsystem"] = "wantLock"]
    /\ UNCHANGED <<gwVars, lvlVars, cfgVars, runVars, ctlVars, loopVars, sigVars, reloadVars, ReloadFuncs,
                   rwReaders, rwWriter, nextId>>

\* c.ReloadFuncsLock.Lock() returns to the party who.
RegLock(who) ==
    /\ reg[who] = "wantLock"
    /\ CanLock
    /\ rwWriter' = who
    /\ reg' = [reg EXCEPT ![who] = "locked"]
    /\ UNCHANGED <<gwVars, lvlVars, cfgVars, runVars, ctlVars, loopVars, sigVars, reloadVars, ReloadFuncs,
                   rwReaders, nextId>>

\* The party who appends its callback and gives up exclusive access; a
\* registering callback then returns nil to Reload.
RegAppendUnlock(who) ==
    /\ reg[who] = "locked"
    /\ \E key \in Keys, kind \in Kinds :
          ReloadFuncs' = Registered(ReloadFuncs, key, Callback(nextId, kind))
    /\ nextId' = nextId + 1
    /\ rwWriter' = NoOne
    /\ reg' = [reg EXCEPT ![who] = "idle"]
    /\ IF who = "callback"
       THEN /\ reloadPc' = "ranging"
            /\ curIdx' = curIdx + 1
       ELSE UNCHANGED <<reloadPc, curIdx>>
    /\ UNCHANGED <<gwVars, lvlVars, cfgVars, runVars, ctlVars, loopVars, sigVars, reloadCaller, keysLeft,
                   curKey, reloadErrors, invoked, reloadResult, acked, rwReaders>>

(***************************************************************************)
(* Signals.                                                                *)
(***************************************************************************)
Signals == {"shutdown", "sighup", "sigusr2"}

\* The loop has been or is about to be entered: signals are of interest.
Serving == runPc \in {"WaitForInterrupt", "InLoop"} \/ loopPc # "idle"

\* A signal is delivered: a send becomes ready on the signal's channel.
SignalArrives ==
    /\ Serving
    /\ arrived < MaxSignals
    /\ \E sig \in Signals : pending' = Append(pending, sig)
    /\ arrived' = arrived + 1
    /\ UNCHANGED <<gwVars, lvlVars, cfgVars, runVars, ctlVars, loopVars, shutdownClosed, reloadVars, lockVars>>

\* ShutdownCh is closed: from now on a receive from it is always ready.
CloseShutdownCh ==
    /\ Serving
    /\ ~shutdownClosed
    /\ arrived < MaxSignals
    /\ shutdownClosed' = TRUE
    /\ arrived' = arrived + 1
    /\ UNCHANGED <<gwVars, lvlVars, cfgVars, runVars, ctlVars, loopVars, pending, reloadVars, lockVars>>

\* The sequence q without its first occurrence of sig.
RECURSIVE Without(_, _)
Without(q, sig) ==
    IF q = <<>> THEN <<>>
    ELSE IF Head(q) = sig THEN Tail(q)
    ELSE <<Head(q)>> \o Without(Tail(q), sig)

Has(q, sig) == \E i \in 1..Len(q) : q[i] = sig

\* The case of the select statement for sig is ready.
Ready(sig) == Has(pending, sig) \/ (sig = "shutdown" /\ shutdownClosed)

\* Signals that keep being delivered for as long as the program serves: a
\* further send becomes ready on a channel on which none is waiting.
SignalArrivesAgain ==
    /\ Serving
    /\ \E sig \in Signals :
          /\ ~Has(pending, sig)
          /\ pending' = Append(pending, sig)
    /\ UNCHANGED <<gwVars, lvlVars, cfgVars, runVars, ctlVars, loopVars, shutdownClosed, arrived,
                   reloadVars, lockVars>>

(***************************************************************************)
(* Command.WaitForInterrupt: the event loop.                               *)
(***************************************************************************)
\* Run calls WaitForInterrupt.
EnterLoop ==
    /\ runPc = "WaitForInterrupt"
    /\ runPc' = "InLoop"
    /\ stages' = Append(stages, "WaitForInterrupt")
    /\ loopPc' = "top"
    /\ shutdownTriggered' = FALSE
    /\ loopRuns' = loopRuns + 1
    /\ UNCHANGED <<gwVars, lvlVars, cfgVars, exitCode, uiErrors, ShutdownFuncs, deferred, shutdownFuncsRun,
                   ctlVars, lastBranch, newConf, sigVars, reloadVars, lockVars>>

\* A plausible slip: the handler forgets to set shutdownTriggered.
AfterShutdownForgotten == FALSE

\* shutdownTriggered = true at the end of the shutdown case.
AfterShutdown == TRUE

\* A plausible slip: the channels are polled in turn with the shutdown
\* channel last, so that a ready reload or dump signal is always taken first.
ReceiveShutdownLast ==
    /\ loopPc = "top"
    /\ ~shutdownTriggered
    /\ Ready("shutdown")
    /\ ~Ready("sighup")
    /\ ~Ready("sigusr2")
    /\ pending' = Without(pending, "shutdown")
    /\ loopPc' = "shutdown"
    /\ UNCHANGED <<gwVars, lvlVars, cfgVars, runVars, ctlVars, shutdownTriggered, lastBranch, newConf, loopRuns,
                   shutdownClosed, arrived, reloadVars, lockVars>>

\* A plausible slip: the shutdown signal is served by a goroutine of its
\* own, which does not wait for a reload in progress.
ReceiveShutdownConcurrently ==
    /\ loopPc \in {"top", "sighup"}
    /\ ~shutdownTriggered
    /\ Ready("shutdown")
    /\ pending' = Without(pending, "shutdown")
    /\ loopPc' = "shutdown"
    /\ UNCHANGED <<gwVars, lvlVars, cfgVars, runVars, ctlVars, shutdownTriggered, lastBranch, newConf, loopRuns,
                   shutdownClosed, arrived, reloadVars, lockVars>>

\* case <-c.ShutdownCh: the value is received and the handler starts.
ReceiveShutdown ==
    /\ loopPc = "top"
    /\ ~shutdownTriggered
    /\ Ready("shutdown")
    /\ pending' = Without(pending, "shutdown")
    /\ loopPc' = "shutdown"
    /\ UNCHANGED <<gwVars, lvlVars, cfgVars, runVars, ctlVars, shutdownTriggered, lastBranch, newConf, loopRuns,
                   shutdownClosed, arrived, reloadVars, lockVars>>

\* A plausible slip: an error of Shutdown leaves the shutdown case before
\* shutdownTriggered is set.
HandleShutdownUnlessError ==
    /\ loopPc = "shutdown"
    /\ \E stopOk \in BOOLEAN :
          LET stopped == ControllerShutdown(controller, calls, stopOk) IN
          /\ controller' = stopped.controller
          /\ calls' = stopped.calls
          /\ uiErrors' = IF stopped.err
                         THEN uiErrors \cup {"Error with controller shutdown"}
                         ELSE uiErrors
          /\ shutdownTriggered' = ~stopped.err
    /\ loopPc' = "top"
    /\ UNCHANGED <<gwVars, lvlVars, cfgVars, runPc, exitCode, stages, ShutdownFuncs, deferred,
                   shutdownFuncsRun, AllLoggers, lastBranch, newConf, loopRuns, sigVars,
                   reloadVars, lockVars>>

\* The shutdown handler: c.controller.Shutdown(), whose error is only
\* printed, then shutdownTriggered is set.
HandleShutdown ==
    /\ loopPc = "shutdown"
    /\ \E stopOk \in BOOLEAN :
          LET stopped == ControllerShutdown(controller, calls, stopOk) IN
          /\ controller' = stopped.controller
          /\ calls' = stopped.calls
          /\ uiErrors' = IF stopped.err
                         THEN uiErrors \cup {"Error with controller shutdown"}
                         ELSE uiErrors
    /\ shutdownTriggered' = AfterShutdown
    /\ loopPc' = "top"
    /\ UNCHANGED <<gwVars, lvlVars, cfgVars, runPc, exitCode, stages, ShutdownFuncs, deferred,
                   shutdownFuncsRun, AllLoggers, lastBranch, newConf, loopRuns, sigVars,
                   reloadVars, lockVars>>

\* case <-c.SighupCh: the configuration is loaded again if a path is set, a
\* recognized log level is applied, and Reload is called at RUNRELOADFUNCS.
ReceiveSighup ==
    /\ loopPc = "top"
    /\ ~shutdownTriggered
    /\ Ready("sighup")
    /\ pending' = Without(pending, "sighup")
    /\ \E loaded \in {"err", "nil", "conf"}, rawLevel \in RawLevels :
          LET b == ReloadBranch(flagConfig, loaded, rawLevel)
              c0 == Called(calls, "<-SighupCh")
              c1 == IF flagConfig THEN Called(c0, "LoadFile") ELSE c0
              c2 == IF b.branch = "setlevel" THEN Called(c1, "SetLogLevel") ELSE c1
          IN  /\ lastBranch' = b.branch
              /\ newConf' = IF flagConfig /\ loaded = "conf"
                            THEN [loaded |-> TRUE, LogLevel |-> rawLevel]
                            ELSE NoNewConf
              /\ AllLoggers' = IF b.branch = "setlevel"
                               THEN SetLogLevel(AllLoggers, b.level)
                               ELSE AllLoggers
              /\ IF b.next = "RUNRELOADFUNCS"
                 THEN /\ calls' = Called(c2, "Reload")
                      /\ loopPc' = "sighup"
                      /\ CallReload("loop")
                 ELSE /\ calls' = c2
                      /\ UNCHANGED <<loopPc, reloadVars>>
    /\ UNCHANGED <<gwVars, lvlVars, cfgVars, runVars, controller, shutdownTriggered, loopRuns,
                   shutdownClosed, arrived, lockVars>>

\* A plausible slip: the dump case lacks its own body and shares the one of
\* the shutdown case.
ReceiveSigusr2AsShutdown ==
    /\ loopPc = "top"
    /\ ~shutdownTriggered
    /\ Ready("sigusr2")
    /\ pending' = Without(pending, "sigusr2")
    /\ calls' = Called(calls, "Stack")
    /\ loopPc' = "shutdown"
    /\ UNCHANGED <<gwVars, lvlVars, cfgVars, runVars, controller, AllLoggers, shutdownTriggered, lastBranch,
                   newConf, loopRuns, shutdownClosed, arrived, reloadVars, lockVars>>

\* A plausible slip: the loop has no condition, so that a dump signal is
\* still taken after the shutdown handler has run.
ReceiveSigusr2AfterShutdown ==
    /\ loopPc = "top"
    /\ Ready("sigusr2")
    /\ pending' = Without(pending, "sigusr2")
    /\ calls' = Called(calls, "Stack")
    /\ UNCHANGED <<gwVars, lvlVars, cfgVars, runVars, controller, AllLoggers, loopVars, shutdownClosed,
                   arrived, reloadVars, lockVars>>

\* case <-c.SigUSR2Ch: the goroutine stacks are logged.
ReceiveSigusr2 ==
    /\ loopPc = "top"
    /\ ~shutdownTriggered
    /\ Ready("sigusr2")
    /\ pending' = Without(pending, "sigusr2")
    /\ calls' = Called(calls, "Stack")
    /\ UNCHANGED <<gwVars, lvlVars, cfgVars, runVars, controller, AllLoggers, loopVars, shutdownClosed,
                   arrived, reloadVars, lockVars>>

\* A plausible slip: a reload that reported errors also ends the loop.
LoopExitAfterFailedReload ==
    /\ loopPc = "top"
    /\ \/ shutdownTriggered
       \/ "Error(s) were encountered during controller reload" \in uiErrors
    /\ loopPc' = "returned"
    /\ IF runPc = "InLoop"
       THEN Return(0, {}, TRUE)
       ELSE UNCHANGED <<runPc, exitCode, uiErrors, deferred, shutdownFuncsRun>>
    /\ UNCHANGED <<gwVars, lvlVars, cfgVars, stages, ShutdownFuncs, ctlVars, shutdownTriggered, lastBranch, newConf,
                   loopRuns, sigVars, reloadVars, lockVars>>

\* The loop condition fails: WaitForInterrupt returns 0, and so does Run
\* after the deferred shutdown actions.
LoopExit ==
    /\ loopPc = "top"
    /\ shutdownTriggered
    /\ loopPc' = "returned"
    /\ IF runPc = "InLoop"
       THEN Return(0, {}, TRUE)
       ELSE UNCHANGED <<runPc, exitCode, uiErrors, deferred, shutdownFuncsRun>>
    /\ UNCHANGED <<gwVars, lvlVars, cfgVars, stages, ShutdownFuncs, ctlVars, shutdownTriggered, lastBranch, newConf,
                   loopRuns, sigVars, reloadVars, lockVars>>

\* A further call of WaitForInterrupt on the same Command, after an earlier
\* one has returned.
ReenterWaitForInterrupt ==
    /\ loopPc = "returned"
    /\ loopRuns < MaxLoopRuns
    /\ loopPc' = "top"
    /\ shutdownTriggered' = FALSE
    /\ loopRuns' = loopRuns + 1
    /\ UNCHANGED <<gwVars, lvlVars, cfgVars, runVars, ctlVars, lastBranch, newConf, sigVars, reloadVars, lockVars>>

(***************************************************************************)
(* The HostService gateway: patterns, handlers and the mux.                *)
(***************************************************************************)
NoRequest == [method |-> "none", path |-> <<>>]
NotRouted == [op |-> "none", params |-> <<>>]

\* The pools and the op sequences given to runtime.NewPattern: pairs of an
\* opcode and its operand.
PoolWithId == <<"v1", "org", "project", "host_catalogs", "catalog_id", "hosts", "id">>
PoolWithoutId == <<"v1", "org", "project", "host_catalogs", "catalog_id", "hosts">>
OpsWithId ==
    <<2, 0, 2, 1, 1, 0, 4, 1, 5, 1, 2, 2, 1, 0, 4, 1, 5, 2, 2, 3, 1, 0, 4, 1, 5, 4,
      2, 5, 1, 0, 4, 1, 5, 6>>
OpsWithoutId ==
    <<2, 0, 2, 1, 1, 0, 4, 1, 5, 1, 2, 2, 1, 0, 4, 1, 5, 2, 2, 3, 1, 0, 4, 1, 5, 4,
      2, 5>>

pattern_HostService_GetHost_0 == [ops |-> OpsWithId, pool |-> PoolWithId]
pattern_HostService_ListHosts_0 == [ops |-> OpsWithoutId, pool |-> PoolWithoutId]
pattern_HostService_CreateHost_0 == [ops |-> OpsWithoutId, pool |-> PoolWithoutId]
pattern_HostService_UpdateHost_0 == [ops |-> OpsWithId, pool |-> PoolWithId]
pattern_HostService_DeleteHost_0 == [ops |-> OpsWithId, pool |-> PoolWithId]

NoMatch == [ok |-> FALSE, params |-> <<>>]

\* The last n entries of the stack, joined into one value: a value is the
\* sequence of the path segments it is made of.
RECURSIVE Joined(_, _)
Joined(stack, n) ==
    IF n = 0 THEN <<>>
    ELSE Joined(SubSeq(stack, 1, Len(stack) - 1), n - 1) \o stack[Len(stack)]

\* Pattern.Match from the k-th op on: 1 pushes the next segment, 2 pushes it
\* if it is the literal pool[operand], 3 pushes all the segments left, 4
\* joins the top operand entries, 5 binds the top entry to the name
\* pool[operand]; in the end every segment must have been consumed.
RECURSIVE MatchFrom(_, _, _, _, _, _)
MatchFrom(pat, comps, k, pos, stack, params) ==
    IF 2 * k > Len(pat.ops)
    THEN IF pos = Len(comps) THEN [ok |-> TRUE, params |-> params] ELSE NoMatch
    ELSE LET code == pat.ops[2 * k - 1]
             operand == pat.ops[2 * k]
         IN  CASE code = 0 -> MatchFrom(pat, comps, k + 1, pos, stack, params)
               [] code = 1 ->
                    IF pos >= Len(comps) THEN NoMatch
                    ELSE MatchFrom(pat, comps, k + 1, pos + 1,
                                   Append(stack, <<comps[pos + 1]>>), params)
               [] code = 2 ->
                    IF pos >= Len(comps) \/ comps[pos + 1] # pat.pool[operand + 1]
                    THEN NoMatch
                    ELSE MatchFrom(pat, comps, k + 1, pos + 1,
                                   Append(stack, <<comps[pos + 1]>>), params)
               [] code = 3 ->
                    MatchFrom(pat, comps, k + 1, Len(comps),
                              Append(stack, SubSeq(comps, pos + 1, Len(comps))), params)
               [] code = 4 ->
                    IF operand > Len(stack) THEN NoMatch
                    ELSE MatchFrom(pat, comps, k + 1, pos,
                                   Append(SubSeq(stack, 1, Len(stack) - operand),
                                          Joined(stack, operand)), params)
               [] code = 5 ->
                    IF stack = <<>> THEN NoMatch
                    ELSE MatchFrom(pat, comps, k + 1, pos,
                                   SubSeq(stack, 1, Len(stack) - 1),
                                   Append(params, <<pat.pool[operand + 1], stack[Len(stack)]>>))
               [] OTHER -> NoMatch

Match(pat, comps) == MatchFrom(pat, comps, 1, 0, <<>>, <<>>)

\* RegisterHostServiceHandlerServer: the calls of mux.Handle, in order.
Handlers ==
    << [method |-> "GET", pattern |-> pattern_HostService_GetHost_0, op |-> "GetHost"],
       [method |-> "GET", pattern |-> pattern_HostService_ListHosts_0, op |-> "ListHosts"],
       [method |-> "POST", pattern |-> pattern_HostService_CreateHost_0, op |-> "CreateHost"],
       [method |-> "PATCH", pattern |-> pattern_HostService_UpdateHost_0, op |-> "UpdateHost"],
       [method |-> "DELETE", pattern |-> pattern_HostService_DeleteHost_0, op |-> "DeleteHost"] >>

\* The mux serving a request: the first handler registered for the method
\* whose pattern matches the path is called with the captured parameters.
RECURSIVE ServeFrom(_, _)
ServeFrom(req, i) ==
    IF i > Len(Handlers) THEN [op |-> "unmatched", params |-> <<>>]
    ELSE LET h == Handlers[i]
             m == Match(h.pattern, req.path)
         IN  IF h.method = req.method /\ m.ok
             THEN [op |-> h.op, params |-> m.params]
             ELSE ServeFrom(req, i + 1)

ServeHTTP ==
    /\ request # NoRequest
    /\ routed = NotRouted
    /\ routed' = ServeFrom(request, 1)
    /\ UNCHANGED <<request, lvlVars, cfgVars, runVars, ctlVars, loopVars, sigVars, reloadVars,
                   lockVars>>

(***************************************************************************)
(* Specifications.                                                         *)
(***************************************************************************)
\* A Command on which nothing has run yet.
InitCommand ==
    /\ exitCode = NoExit
    /\ levelCall = NoLevelCall
    /\ uiErrors = {}
    /\ ShutdownFuncs = <<>>
    /\ deferred = FALSE
    /\ shutdownFuncsRun = <<>>
    /\ controller = NoController
    /\ calls = [n \in CallNames |-> 0]
    /\ loopPc = "idle"
    /\ shutdownTriggered = FALSE
    /\ pending = <<>>
    /\ shutdownClosed = FALSE
    /\ arrived = 0
    /\ loopRuns = 0
    /\ lastBranch = "none"
    /\ newConf = NoNewConf
    /\ ReloadFuncs = EmptyRegistry
    /\ reloadPc = "idle"
    /\ reloadCaller = "none"
    /\ keysLeft = {}
    /\ curKey = NoKey
    /\ curIdx = 1
    /\ reloadErrors = <<>>
    /\ invoked = <<>>
    /\ reloadResult = NotReturned
    /\ acked = FALSE
    /\ rwReaders = 0
    /\ rwWriter = NoOne
    /\ reg = [r \in Registrants |-> "idle"]
    /\ nextId = 1

\* Run is called on a new Command.
Init ==
    /\ InitCommand
    /\ request = NoRequest
    /\ routed = NotRouted
    /\ runPc = "ParseFlagsAndConfig"
    /\ Config = NoConfig
    /\ loadedListeners = <<>>
    /\ flagDev = FALSE
    /\ flagConfig = FALSE
    /\ stages = <<>>
    /\ AllLoggers = <<>>

Startup ==
    \/ ParseFlagsAndConfig
    \/ SetupLogging
    \/ StartMemProfiler
    \/ SetupMetrics
    \/ SetupKMSes
    \/ MlockWarning
    \/ CheckListeners
    \/ SetupListeners
    \/ StorePidFile
    \/ CreateDevDatabase
    \/ Start
    \/ EnterLoop

EventLoop ==
    \/ SignalArrives
    \/ CloseShutdownCh
    \/ ReceiveShutdown
    \/ HandleShutdown
    \/ ReceiveSighup
    \/ AfterReload
    \/ ReceiveSigusr2
    \/ LoopExit

ReloadSteps ==
    \/ ReloadBegin
    \/ ReloadRangeKey
    \/ ReloadInvoke
    \/ ReloadAck
    \/ ReloadReturn

Next == Startup \/ EventLoop \/ ReloadSteps

\* The program: Run from its call to its return.
Spec == Init /\ [][Next]_vars

\* The program, and further calls of WaitForInterrupt on the same Command.
NextAPI == Next \/ ReenterWaitForInterrupt
SpecAPI == Init /\ [][NextAPI]_vars

\* The purpose lists of length k.
PurposeLists(k) == [1..k -> Purposes]

\* The lists of n listeners with at most budget purpose entries in all.
RECURSIVE ListsWithin(_, _)
ListsWithin(n, budget) ==
    IF n = 0 THEN {<<>>}
    ELSE UNION { LET heads == {Listener(p, t) : p \in PurposeLists(k), t \in BOOLEAN}
                     rests == ListsWithin(n - 1, budget - k)
                 IN  {<<h>> \o rest : h \in heads, rest \in rests} : k \in 0..budget }

ListenerLists == UNION { ListsWithin(n, MaxPurposeEntries) : n \in 0..MaxListeners }

\* Run has reached the listener checks with some configured listener list.
InitValidate ==
    /\ InitCommand
    /\ request = NoRequest
    /\ routed = NotRouted
    /\ runPc = "ListenerChecks"
    /\ \E ls \in ListenerLists :
          /\ Config = [Listeners |-> ls, DisableMlock |-> FALSE]
          /\ loadedListeners = ls
    /\ flagDev = FALSE
    /\ flagConfig = TRUE
    /\ stages = <<"ParseFlagsAndConfig", "SetupLogging", "StartMemProfiler",
                  "SetupMetrics", "SetupKMSes">>
    /\ AllLoggers = [i \in 1..MaxLoggers |-> Logger(i, "Info")]

NextValidate == CheckListeners

\* The listener checks of Run on every listener list within the bounds.
SpecValidate == InitValidate /\ [][NextValidate]_vars

\* A Command whose Reload is called directly while a subsystem registers.
InitReload ==
    /\ InitCommand
    /\ request = NoRequest
    /\ routed = NotRouted
    /\ runPc = "notCalled"
    /\ Config = NoConfig
    /\ loadedListeners = <<>>
    /\ flagDev = FALSE
    /\ flagConfig = FALSE
    /\ stages = <<>>
    /\ AllLoggers = <<>>

NextReload ==
    \/ ReloadCall
    \/ ReloadSteps
    \/ RegisterCall
    \/ \E who \in Registrants : RegLock(who)
    \/ \E who \in Registrants : RegAppendUnlock(who)

\* Reload and registration running side by side.
SpecReload == InitReload /\ [][NextReload]_vars

\* The collections SetLogLevel is given: the loggers in the order in which
\* they were added, each at a level of its own.
LoggerCollections ==
    UNION {{[i \in 1..n |-> Logger(i, lv[i])] : lv \in [1..n -> Levels]} :
              n \in 0..(MaxLoggers + 1)}

\* A controller has been made over a collection of loggers.
InitSetLogLevel ==
    /\ InitCommand
    /\ request = NoRequest
    /\ routed = NotRouted
    /\ runPc = "notCalled"
    /\ Config = NoConfig
    /\ loadedListeners = <<>>
    /\ flagDev = FALSE
    /\ flagConfig = FALSE
    /\ stages = <<>>
    /\ AllLoggers \in LoggerCollections

NextSetLogLevel ==
    \/ SetLogLevelCall
    \/ SetLevelStep
    \/ SetLogLevelReturn

\* SetLogLevel called directly, logger by logger.
SpecSetLogLevel == InitSetLogLevel /\ [][NextSetLogLevel]_vars

\* Run has started the controller of the dev configuration, with one
\* listener, and is about to call WaitForInterrupt.
InitServing ==
    /\ runPc = "WaitForInterrupt"
    /\ levelCall = NoLevelCall
    /\ exitCode = NoExit
    /\ Config = [Listeners |-> <<[Purpose |-> <<"api", "cluster">>, TLSDisable |-> FALSE]>>,
                 DisableMlock |-> TRUE]
    /\ loadedListeners = <<[Purpose |-> <<>>, TLSDisable |-> FALSE]>>
    /\ flagDev = TRUE
    /\ flagConfig = FALSE
    /\ stages = <<"ParseFlagsAndConfig", "SetupLogging", "StartMemProfiler",
                  "SetupMetrics", "SetupKMSes", "ListenerChecks", "SetupListeners",
                  "StorePidFile", "CreateDevDatabase", "Start">>
    /\ uiErrors = {}
    /\ ShutdownFuncs = <<"DestroyDevDatabase">>
    /\ deferred = TRUE
    /\ shutdownFuncsRun = <<>>
    /\ controller = [made |-> TRUE, memLocked |-> FALSE, listeners |-> "up"]
    /\ AllLoggers = [i \in 1..MaxLoggers |-> Logger(i, "Info")]
    /\ calls = [n \in CallNames |-> IF n = "startListeners" THEN 1 ELSE 0]
    /\ loopPc = "idle"
    /\ shutdownTriggered = FALSE
    /\ pending = <<>>
    /\ shutdownClosed = FALSE
    /\ arrived = 0
    /\ loopRuns = 0
    /\ lastBranch = "none"
    /\ newConf = NoNewConf
    /\ \E kind \in {"ok", "fail"} :
          ReloadFuncs = RegisterListeners(EmptyRegistry, 1, 1, <<kind>>)
    /\ reloadPc = "idle"
    /\ reloadCaller = "none"
    /\ keysLeft = {}
    /\ curKey = NoKey
    /\ curIdx = 1
    /\ reloadErrors = <<>>
    /\ invoked = <<>>
    /\ reloadResult = NotReturned
    /\ acked = FALSE
    /\ rwReaders = 0
    /\ rwWriter = NoOne
    /\ reg = [r \in Registrants |-> "idle"]
    /\ nextId = 2
    /\ request = NoRequest
    /\ routed = NotRouted

NextServing ==
    \/ EnterLoop
    \/ SignalArrivesAgain
    \/ CloseShutdownCh
    \/ ReceiveShutdown
    \/ HandleShutdown
    \/ ReceiveSighup
    \/ AfterReload
    \/ ReceiveSigusr2
    \/ LoopExit
    \/ ReloadSteps

\* Every handler invocation terminates, and the select statement, which
\* picks at random among its ready cases, does not pass over the shutdown
\* case for ever.
FairLoop ==
    /\ WF_vars(EnterLoop)
    /\ WF_vars(HandleShutdown)
    /\ WF_vars(LoopExit)
    /\ WF_vars(ReloadSteps)
    /\ WF_vars(AfterReload)
    /\ SF_vars(ReceiveShutdown)

\* The event loop of a started controller while signals keep arriving.
SpecServing == InitServing /\ [][NextServing]_vars /\ FairLoop

\* The requests served: every method on paths of the shape the specification
\* gives and of the shape the patterns are built for, with either spelling
\* of the catalogs segment, with and without a host id.
Methods == {"GET", "POST", "PATCH", "DELETE", "PUT"}
IdNames == <<"a", "b", "c", "d">>
Ids == {IdNames[i] : i \in 1..MaxIds}
CatalogSegments == {"host-catalogs", "host_catalogs"}
ShortPaths ==
    {<<"v1", o, p, hc, c, "hosts">> : o \in Ids, p \in Ids, hc \in CatalogSegments, c \in Ids}
LongPaths ==
    {<<"v1", "org", o, "project", p, hc, c, "hosts">> :
        o \in Ids, p \in Ids, hc \in CatalogSegments, c \in Ids}
Paths ==
    LET collections == ShortPaths \cup LongPaths
    IN  collections \cup {Append(q, id) : q \in collections, id \in Ids}
Requests == [method : Methods, path : Paths]

\* A mux with the HostService handlers registered is handed one request.
InitGateway ==
    /\ InitCommand
    /\ runPc = "notCalled"
    /\ Config = NoConfig
    /\ loadedListeners = <<>>
    /\ flagDev = FALSE
    /\ flagConfig = FALSE
    /\ stages = <<>>
    /\ AllLoggers = <<>>
    /\ request \in Requests
    /\ routed = NotRouted

NextGateway == ServeHTTP

SpecGateway == InitGateway /\ [][NextGateway]_vars

(***************************************************************************)
(* Properties.                                                             *)
(***************************************************************************)
\* Run has made the call (or done the check) named stage.
Did(stage) == \E i \in 1..Len(stages) : stages[i] = stage

\* Number of entries of the sequence q that are in the set S.
RECURSIVE CountIn(_, _)
CountIn(q, S) ==
    IF q = <<>> THEN 0
    ELSE (IF Head(q) \in S THEN 1 ELSE 0) + CountIn(Tail(q), S)

\* The registered callbacks, whatever their key.
AllCallbacks == UNION { {ReloadFuncs[k][i] : i \in 1..Len(ReloadFuncs[k])} : k \in Keys }

\* Ids of the registered callbacks of the given kind.
IdsOfKind(kind) == {cb.id : cb \in {c \in AllCallbacks : c.kind = kind}}

\* Ids of the callbacks that take part in a reload: not nil, under a key
\* with the prefix "listener|".
Participating ==
    UNION { {ReloadFuncs[k][i].id : i \in {j \in 1..Len(ReloadFuncs[k]) :
                                              ReloadFuncs[k][j].kind # "nil"}}
            : k \in {key \in Keys : HasPrefix(key, ListenerPrefix)} }

\* The entries of q that are in the set S, in their order.
RECURSIVE Restrict(_, _)
Restrict(q, S) ==
    IF q = <<>> THEN <<>>
    ELSE (IF Head(q) \in S THEN <<Head(q)>> ELSE <<>>) \o Restrict(Tail(q), S)

\* ---- C1 ----
\* C1: in one run of the event loop Controller.Shutdown is invoked exactly
\* once however many shutdown signals arrive: not before the shutdown handler
\* has run, once after it, and after it the loop does nothing but return.
C1_ShutdownOncePerLoopRun ==
    loopPc # "idle" =>
        /\ calls["stopListeners"] = (IF shutdownTriggered THEN 1 ELSE 0)
        /\ loopPc = "returned" => shutdownTriggered
        /\ shutdownTriggered => loopPc \in {"top", "returned"}

\* C1 witness: the loop has returned after one Shutdown although a second
\* shutdown signal was delivered and ShutdownCh still has it ready.
C1_Witness ==
    /\ loopPc = "returned"
    /\ arrived >= 2
    /\ Has(pending, "shutdown")
    /\ calls["stopListeners"] = 1

\* ---- C2 ----
\* C2: however often WaitForInterrupt is called on one Command,
\* Controller.Shutdown (stopListeners) is run at most once.
C2_TeardownOnceAcrossInvocations ==
    loopRuns >= 1 => calls["stopListeners"] <= 1

\* ---- C3 ----
\* C3: when Reload returns, every callback that is not nil and is registered
\* under a "listener|" key has been invoked exactly once, whether or not a
\* callback before it failed.
C3_EveryCallbackRunsOnce ==
    [][(reloadPc # "idle" /\ reloadPc' = "idle") =>
          \A id \in Participating' : CountIn(invoked', {id}) = 1]_vars

\* C3 witness: Reload has returned, and under one key a failing callback is
\* followed by a succeeding one, both invoked.
C3_Witness ==
    /\ reloadResult.returned
    /\ \E k \in ListenerKeys :
          /\ Len(ReloadFuncs[k]) >= 2
          /\ ReloadFuncs[k][1].kind = "fail"
          /\ ReloadFuncs[k][2].kind = "ok"
          /\ CountIn(invoked, {ReloadFuncs[k][1].id}) = 1
          /\ CountIn(invoked, {ReloadFuncs[k][2].id}) = 1

\* ---- C4 ----
\* C4: Reload returns nil exactly when no invoked callback failed, and
\* otherwise an aggregate with one entry for each failed invocation, in the
\* order of the invocations.
C4_AggregateMatchesFailures ==
    reloadResult.returned =>
        LET failed == Restrict(invoked, IdsOfKind("fail")) IN
        /\ (reloadResult.errs = Nil) <=> (failed = <<>>)
        /\ reloadResult.errs # Nil => reloadResult.errs = MultiError(failed)

\* C4 witness: Reload has returned an aggregate of two errors.
C4_Witness ==
    /\ reloadResult.returned
    /\ reloadResult.errs # Nil
    /\ Len(reloadResult.errs.errors) = 2

\* ---- C6 ----
\* C6: while a callback of Reload executes, Reload holds no shared access on
\* the registry, so a callback that registers can get exclusive access.
\* Reload defers RUnlock to its return: the formula fails in the state where
\* a registering callback has been invoked.
C6_ReleasedBeforeCallbacks ==
    reloadPc = "inCallback" => rwReaders = 0

\* What Reload does instead (C6): it holds shared access from its RLock until
\* it returns, also while callbacks execute; a callback that registers waits
\* for exclusive access and never gets it.
C6_HeldThroughCallbacks ==
    /\ reloadPc \in {"ranging", "inCallback"} => rwReaders >= 1
    /\ reloadPc = "inCallback" => (reg["callback"] = "wantLock" /\ ~CanLock)
    /\ reg["callback"] # "locked"

\* The state C6 fails in: a registering callback has been invoked and waits for
\* exclusive access while Reload holds shared access.
C6_Witness ==
    /\ reloadPc = "inCallback"
    /\ reg["callback"] = "wantLock"
    /\ rwReaders = 1

\* ---- C7 ----
\* C7: nobody holds exclusive access (and so nobody changes the registry)
\* while Reload holds shared access and iterates.
C7_NoRegistrationDuringReload ==
    /\ ~(rwWriter # NoOne /\ rwReaders > 0)
    /\ reloadPc \in {"ranging", "inCallback"} =>
          (rwWriter = NoOne /\ \A r \in Registrants : reg[r] # "locked")

\* C7 witness: a subsystem is waiting to register while Reload iterates.
C7_Witness ==
    /\ reloadPc = "ranging"
    /\ reg["subsystem"] = "wantLock"
    /\ rwReaders = 1
    /\ rwWriter = NoOne

\* ---- C5 ----
\* C5: every reload signal the loop receives is followed by one call of
\* Reload, whatever branch the handler takes: the calls of Reload are as many
\* as the signals received, and the handler is not left before Reload runs.
C5_ReloadOncePerSighup ==
    /\ calls["Reload"] = calls["<-SighupCh"]
    /\ loopPc = "sighup" =>
          IF reloadPc = "idle" THEN reloadResult.returned ELSE reloadCaller = "loop"

\* C5 witness: two reload signals have been handled, the last one with a
\* configuration that failed to load, and Reload has returned both times.
C5_Witness ==
    /\ calls["<-SighupCh"] = 2
    /\ calls["Reload"] = 2
    /\ lastBranch = "loaderr"
    /\ loopPc = "top"
    /\ reloadResult.returned

\* ---- C8 ----
\* Every listener declares the one purpose api.
ApiOnly(ls) ==
    /\ Len(ls) >= 1
    /\ \A i \in 1..Len(ls) : ls[i].Purpose = <<"api">>

\* C8: a listener list of single purposes from {api, cluster} with an api
\* listener and no cluster listener fails the checks: Run returns 1 with the
\* no-cluster-listener error.
C8_ApiWithoutClusterFails ==
    (Did("ListenerChecks") /\ ApiOnly(Config.Listeners)) =>
        /\ runPc = "returned"
        /\ exitCode = 1
        /\ uiErrors = {ErrNoCluster}

\* C8 witness: two api listeners have been checked and rejected.
C8_Witness ==
    /\ Did("ListenerChecks")
    /\ ApiOnly(Config.Listeners)
    /\ Len(Config.Listeners) = 2
    /\ exitCode = 1

\* ---- C9 ----
\* Every listener declares the one purpose cluster (the empty list too).
ClusterOnly(ls) == \A i \in 1..Len(ls) : ls[i].Purpose = <<"cluster">>

\* C9: a listener list of cluster listeners only passes the checks and Run
\* goes on to listener setup.
C9_ClusterOnlyPasses ==
    (Did("ListenerChecks") /\ ~Did("SetupListeners") /\ ClusterOnly(Config.Listeners)) =>
        /\ runPc = "SetupListeners"
        /\ exitCode = NoExit
        /\ uiErrors = {}

\* C9 witness: two cluster listeners have been checked and accepted.
C9_Witness ==
    /\ Did("ListenerChecks")
    /\ ClusterOnly(Config.Listeners)
    /\ Len(Config.Listeners) = 2
    /\ runPc = "SetupListeners"

\* ---- C10 ----
\* Some listener declares a purpose string that is neither api nor cluster.
HasUnknownPurpose(ls) ==
    \E i \in 1..Len(ls) :
        \E j \in 1..Len(ls[i].Purpose) : ls[i].Purpose[j] \notin {"api", "cluster"}

\* C10: a listener list with a listener that declares an unrecognized
\* purpose string fails the checks, wherever that listener is and whatever
\* the others are: Run returns 1 with an error and never sets up listeners.
\* The switch on len(Purpose) has no case for three or more purposes, so a
\* listener declaring <<"bogus", "api", "cluster">> is passed over.
C10_UnknownPurposeFails ==
    (Did("ListenerChecks") /\ HasUnknownPurpose(Config.Listeners)) =>
        /\ runPc = "returned"
        /\ exitCode = 1
        /\ uiErrors # {}
        /\ ~Did("SetupListeners")

\* ---- C11 ----
\* The listener declares two purposes, api and cluster, in either order.
DeclaresBoth(l) ==
    /\ Len(l.Purpose) = 2
    /\ StrListContains(l.Purpose, "api")
    /\ StrListContains(l.Purpose, "cluster")

\* Listener i of ls, taken alone, passes the switch without an error.
ListenerValid(ls, i) == CheckListener(CheckState(ls), i).err = ErrNone

\* The step in which Run performs the listener checks.
ChecksStep == runPc = "ListenerChecks" /\ runPc' # "ListenerChecks"

\* C11: the listener checks reject every list with a listener that declares
\* api and cluster and has TLS disabled; a list with such a listener that has
\* TLS enabled, all of whose listeners are valid, passes with both flags set.
C11_BothPurposesNeedTLS ==
    [][ChecksStep =>
          LET ls == Config.Listeners IN
          /\ (\E i \in 1..Len(ls) : DeclaresBoth(ls[i]) /\ ls[i].TLSDisable) =>
                (runPc' = "returned" /\ exitCode' = 1 /\ uiErrors' # {})
          /\ ( /\ \E i \in 1..Len(ls) : DeclaresBoth(ls[i]) /\ ~ls[i].TLSDisable
               /\ \A j \in 1..Len(ls) : ListenerValid(ls, j) ) =>
                /\ runPc' = "SetupListeners"
                /\ exitCode' = NoExit
                /\ uiErrors' = {}
                /\ ListenerChecks(ls).foundAPI
                /\ ListenerChecks(ls).foundCluster]_vars

\* C11 witness: a list whose second listener declares cluster and api with
\* TLS disabled, behind a valid listener, has been rejected for it.
C11_Witness ==
    /\ Did("ListenerChecks")
    /\ Len(Config.Listeners) = 2
    /\ Config.Listeners[1].Purpose = <<"cluster">>
    /\ Config.Listeners[2] = Listener(<<"cluster", "api">>, TRUE)
    /\ exitCode = 1
    /\ uiErrors = {ErrTLSDisabled}

\* ---- C12 ----
\* The list ls with the purposes of listener i replaced by both.
Explicit(ls, i, both) == [ls EXCEPT ![i].Purpose = both]

\* C12: a list with a listener of no declared purpose has the outcome of the
\* same list with that listener declaring api and cluster (in either order):
\* the same error printed or none, the same way on for Run, the same flags.
C12_EmptyPurposeAsExplicit ==
    Did("ListenerChecks") =>
        \A i \in 1..Len(loadedListeners) :
            loadedListeners[i].Purpose = <<>> =>
                \A both \in {<<"api", "cluster">>, <<"cluster", "api">>} :
                    LET e == ListenerChecks(Explicit(loadedListeners, i, both))
                        d == ListenerChecks(loadedListeners)
                    IN  /\ uiErrors = (IF e.err = ErrNone THEN {} ELSE {e.err})
                        /\ e.err # ErrNone => (runPc = "returned" /\ exitCode = 1)
                        /\ e.err = ErrNone => (runPc = "SetupListeners" /\ exitCode = NoExit)
                        /\ d.foundAPI = e.foundAPI
                        /\ d.foundCluster = e.foundCluster

\* C12 witness: a list whose second listener has no declared purpose and TLS
\* disabled has been rejected as one declaring both purposes would be.
C12_Witness ==
    /\ Did("ListenerChecks")
    /\ Len(loadedListeners) = 2
    /\ loadedListeners[1] = Listener(<<"cluster">>, FALSE)
    /\ loadedListeners[2] = Listener(<<>>, TRUE)
    /\ uiErrors = {ErrTLSDisabled}
    /\ exitCode = 1

\* ---- C13 ----
\* The listener declares two purposes that are not api and cluster.
InvalidPair(l) ==
    /\ Len(l.Purpose) = 2
    /\ ~(StrListContains(l.Purpose, "api") /\ StrListContains(l.Purpose, "cluster"))

\* The list ls with the two purposes of listener i in the other order.
Swapped(ls, i) == [ls EXCEPT ![i].Purpose = <<ls[i].Purpose[2], ls[i].Purpose[1]>>]

\* C13: a list with a listener of two purposes that are not api and cluster
\* is rejected, with the invalid-purpose-set error when the listeners before
\* it are valid; and the order of a listener's two purposes does not change
\* what the checks print.
C13_InvalidPairFails ==
    Did("ListenerChecks") =>
        \A i \in 1..Len(loadedListeners) :
            /\ InvalidPair(loadedListeners[i]) =>
                  /\ runPc = "returned"
                  /\ exitCode = 1
                  /\ uiErrors # {}
                  /\ (\A j \in 1..(i - 1) : ListenerValid(loadedListeners, j)) =>
                        uiErrors = {ErrInvalidPurposeSet}
            /\ Len(loadedListeners[i].Purpose) = 2 =>
                  LET e == ListenerChecks(Swapped(loadedListeners, i)) IN
                  uiErrors = (IF e.err = ErrNone THEN {} ELSE {e.err})

\* C13 witness: a list whose second listener declares api twice, behind a
\* valid listener, has been rejected with the invalid-purpose-set error.
C13_Witness ==
    /\ Did("ListenerChecks")
    /\ Len(loadedListeners) = 2
    /\ loadedListeners[1] = Listener(<<"cluster">>, FALSE)
    /\ loadedListeners[2] = Listener(<<"api", "api">>, FALSE)
    /\ uiErrors = {ErrInvalidPurposeSet}
    /\ exitCode = 1

\* ---- C14 ----
\* C14: once the listener checks have passed and Run is at listener setup,
\* no configured listener whose purposes include api and cluster has TLS
\* disabled, whatever the length of its purpose list.  The switch passes
\* over a listener with three or more purposes, so the formula fails for a
\* listener declaring <<"api", "cluster", "api">> with TLS disabled.
C14_NoBothPurposesWithoutTLS ==
    (Did("ListenerChecks") /\ runPc = "SetupListeners") =>
        \A i \in 1..Len(Config.Listeners) :
            ( /\ StrListContains(Config.Listeners[i].Purpose, "api")
              /\ StrListContains(Config.Listeners[i].Purpose, "cluster") ) =>
                ~Config.Listeners[i].TLSDisable

\* ---- C15 ----
\* The stages of Run that every run goes through, in the order of the code.
StageOrder ==
    <<"ParseFlagsAndConfig", "SetupLogging", "StartMemProfiler", "SetupMetrics",
      "SetupKMSes", "ListenerChecks", "SetupListeners", "StorePidFile", "Start",
      "WaitForInterrupt">>

StageSet == {StageOrder[i] : i \in 1..Len(StageOrder)}

\* The sequence a is an initial part of the sequence b.
IsPrefix(a, b) ==
    /\ Len(a) <= Len(b)
    /\ \A i \in 1..Len(a) : a[i] = b[i]

\* C15: startup is fail-fast.  The stages run in the order of the code; a
\* stage that prints an error before the event loop is entered ends Run at
\* once with exit code 1; a Run that returned 1 never entered the event
\* loop; and after Run has returned no stage is executed any more.
C15_StartupFailFast ==
    /\ [](IsPrefix(Restrict(stages, StageSet), StageOrder))
    /\ []((uiErrors # {} /\ ~Did("WaitForInterrupt")) =>
             (runPc = "returned" /\ exitCode = 1))
    /\ []((runPc = "returned" /\ exitCode = 1) =>
             (~Did("WaitForInterrupt") /\ loopRuns = 0 /\ loopPc = "idle" /\ uiErrors # {}))
    /\ [][runPc = "returned" =>
             (runPc' = "returned" /\ stages' = stages /\ exitCode' = exitCode)]_vars

\* C15 witness: storing the PID file failed; Run has returned 1 without
\* creating the dev database, starting the controller or entering the loop.
C15_Witness ==
    /\ runPc = "returned"
    /\ exitCode = 1
    /\ uiErrors = {"Error storing PID"}
    /\ stages[Len(stages)] = "StorePidFile"
    /\ flagDev

\* ---- C16 ----
\* The errors the listener checks print.
ValidationErrors == {ErrUnknownPurpose, ErrInvalidPurposeSet, ErrTLSDisabled, ErrNoCluster}

\* C16: listener setup is invoked only after the listener checks, with no
\* error printed by them and every listener of the list passed; once the
\* checks have printed an error, Run has returned 1 and listener setup, the
\* PID file and the controller start are never invoked.
C16_SetupOnlyAfterValidation ==
    /\ Did("SetupListeners") =>
          /\ Did("ListenerChecks")
          /\ uiErrors \cap ValidationErrors = {}
          /\ \A i \in 1..Len(loadedListeners) : ListenerValid(loadedListeners, i)
    /\ uiErrors \cap ValidationErrors # {} =>
          /\ runPc = "returned"
          /\ exitCode = 1
          /\ ~Did("SetupListeners")
          /\ ~Did("StorePidFile")
          /\ ~Did("Start")
          /\ controller = NoController
          /\ calls["startListeners"] = 0

\* C16 witness: the checks have rejected a list for its missing cluster
\* listener and Run has returned without setting up listeners.
C16_Witness ==
    /\ uiErrors = {ErrNoCluster}
    /\ runPc = "returned"
    /\ stages[Len(stages)] = "ListenerChecks"

\* ---- C17 ----
\* C17: the PID file is stored only after listener setup has returned
\* without an error: whenever StorePidFile has been invoked, SetupListeners
\* was invoked right before it and printed no error; after an error of
\* SetupListeners Run has returned 1 without storing the PID file.
C17_PidFileOnlyAfterListeners ==
    /\ Did("StorePidFile") =>
          /\ \E i \in 2..Len(stages) :
                stages[i] = "StorePidFile" /\ stages[i - 1] = "SetupListeners"
          /\ "SetupListeners error" \notin uiErrors
    /\ "SetupListeners error" \in uiErrors =>
          /\ runPc = "returned"
          /\ exitCode = 1
          /\ ~Did("StorePidFile")

\* C17 witness: the PID file has been stored, for two listeners that were
\* set up before it.
C17_Witness ==
    /\ Did("StorePidFile")
    /\ stages[Len(stages)] = "StorePidFile"
    /\ Len(Config.Listeners) = 2
    /\ runPc = "CreateDevDatabase"

\* ---- C18 ----
\* C18: when Run has returned, by whatever exit, every shutdown action
\* registered until then has been run, once and in the order of
\* registration; none is run while Run is still going.
C18_ShutdownFuncsRunOnEveryExit ==
    /\ runPc = "returned" => shutdownFuncsRun = ShutdownFuncs
    /\ runPc # "returned" => shutdownFuncsRun = <<>>

\* C18 witness: the controller start failed after the dev database teardown
\* was registered; Run has returned 1 without entering the event loop and
\* the teardown has been run.
C18_Witness ==
    /\ runPc = "returned"
    /\ exitCode = 1
    /\ ~Did("WaitForInterrupt")
    /\ ShutdownFuncs = <<"DestroyDevDatabase">>
    /\ shutdownFuncsRun = <<"DestroyDevDatabase">>

\* ---- C19 ----
\* C19: the dev database is created in dev mode only; once its creation has
\* succeeded its teardown is registered, and it has been run when Run has
\* returned, by whatever exit; when the creation failed, Run has returned 1
\* with no teardown registered or run.
C19_DevDatabaseTornDown ==
    /\ Did("CreateDevDatabase") => flagDev
    /\ ~Did("CreateDevDatabase") => (ShutdownFuncs = <<>> /\ shutdownFuncsRun = <<>>)
    /\ (Did("CreateDevDatabase") /\ "Error creating dev database container" \notin uiErrors) =>
          /\ ShutdownFuncs = <<"DestroyDevDatabase">>
          /\ runPc = "returned" => shutdownFuncsRun = <<"DestroyDevDatabase">>
          /\ runPc # "returned" => shutdownFuncsRun = <<>>
    /\ "Error creating dev database container" \in uiErrors =>
          /\ runPc = "returned"
          /\ exitCode = 1
          /\ ShutdownFuncs = <<>>
          /\ shutdownFuncsRun = <<>>

\* C19 witness: in dev mode the event loop has ended after a shutdown, Run
\* has returned 0 and the teardown of the dev database has been run.
C19_Witness ==
    /\ flagDev
    /\ runPc = "returned"
    /\ exitCode = 0
    /\ Did("WaitForInterrupt")
    /\ shutdownFuncsRun = <<"DestroyDevDatabase">>

\* ---- C20 ----
\* C20: the listeners of the controller are started only with memory locked
\* or with DisableMlock set; with DisableMlock set, LockMemory is never
\* attempted; when LockMemory fails, New returns an error: no Controller is
\* produced, Start is never called and Run returns 1.
C20_ListenersOnlyWithLockedMemory ==
    /\ calls["startListeners"] >= 1 =>
          /\ controller.made
          /\ Config.DisableMlock \/ controller.memLocked
    /\ Config.DisableMlock => (calls["LockMemory"] = 0 /\ ~controller.memLocked)
    /\ controller.memLocked => calls["LockMemory"] = 1
    /\ "Error initializing controller" \in uiErrors =>
          /\ ~Config.DisableMlock
          /\ calls["LockMemory"] = 1
          /\ controller = NoController
          /\ calls["startListeners"] = 0
          /\ runPc = "returned"
          /\ exitCode = 1
          /\ ~Did("WaitForInterrupt")

\* C20 witness: LockMemory failed with DisableMlock not set; Run has
\* returned 1 and no listener was started.
C20_Witness ==
    /\ uiErrors = {"Error initializing controller"}
    /\ calls["LockMemory"] = 1
    /\ calls["startListeners"] = 0
    /\ runPc = "returned"

\* ---- C21 ----
\* C21: an error of Controller.Shutdown in the shutdown handler is printed
\* and nothing more: shutdownTriggered is set as without the error, the loop
\* does nothing further but return, and Run returns 0.
C21_ShutdownErrorOnlyReported ==
    /\ (Did("WaitForInterrupt") /\ "Error with controller shutdown" \in uiErrors) =>
          /\ shutdownTriggered
          /\ loopPc \in {"top", "returned"}
          /\ exitCode \in {NoExit, 0}
          /\ runPc = "returned" <=> loopPc = "returned"
    /\ (Did("WaitForInterrupt") /\ runPc = "returned") => exitCode = 0

\* C21 witness: Shutdown returned an error in the shutdown handler and Run
\* has returned 0.
C21_Witness ==
    /\ Did("WaitForInterrupt")
    /\ "Error with controller shutdown" \in uiErrors
    /\ runPc = "returned"
    /\ exitCode = 0

\* ---- C22 ----
\* C22: the event loop returns only after the shutdown handler has run:
\* a returned loop has handled a shutdown, only the shutdown handler sets
\* shutdownTriggered, and the step that returns is taken with it set,
\* whatever reload and dump signals were handled and however they ended.
C22_LoopExitsOnlyViaShutdown ==
    /\ [](loopPc = "returned" => (shutdownTriggered /\ calls["stopListeners"] = 1))
    /\ [][(~shutdownTriggered /\ shutdownTriggered') => loopPc = "shutdown"]_vars
    /\ [][(loopPc # "returned" /\ loopPc' = "returned") =>
             (shutdownTriggered /\ loopPc = "top")]_vars

\* C22 witness: the loop has handled a dump signal and a reload whose
\* configuration failed to load and whose callbacks returned errors, and it
\* is waiting again.
C22_Witness ==
    /\ loopPc = "top"
    /\ ~shutdownTriggered
    /\ calls["Stack"] = 1
    /\ calls["Reload"] = 1
    /\ lastBranch = "loaderr"
    /\ reloadResult.returned
    /\ "Error(s) were encountered during controller reload" \in uiErrors

\* C23: once a shutdown signal is ready on ShutdownCh, by a send or by the
\* closing of the channel, the event loop eventually handles it, calls
\* Controller.Shutdown and returns, however many reload and dump signals
\* keep arriving, given that handlers terminate and the choice among the
\* ready cases is fair.
C23_ShutdownEventuallyHandled ==
    (Serving /\ Ready("shutdown")) ~>
        (loopPc = "returned" /\ shutdownTriggered /\ calls["stopListeners"] >= 1)

\* The loop has returned after a shutdown although more reload and dump
\* signals were handled than the counters tell apart, and others still wait.
C23_Witness ==
    /\ loopPc = "returned"
    /\ calls["stopListeners"] = 1
    /\ calls["Reload"] = MaxCalls
    /\ calls["Stack"] = MaxCalls
    /\ Has(pending, "sighup")
    /\ Has(pending, "sigusr2")

\* C24: at most one handler of the event loop is executing at any time.  A
\* reload runs only inside the reload handler and never during the shutdown
\* handler; the loop calls Controller.Shutdown only inside the shutdown
\* handler; a trigger is taken only at the select, when no handler is executing; and a
\* signal that arrives during a handler stays pending until the handler has
\* finished.
C24_HandlersNeverInterleave ==
    /\ [](loopPc = "shutdown" => reloadPc = "idle")
    /\ [](reloadPc # "idle" => (loopPc = "sighup" /\ reloadCaller = "loop"))
    /\ [][Len(pending') < Len(pending) => loopPc = "top"]_vars
    /\ [][loopPc # "top" => IsPrefix(pending, pending')]_vars
    /\ [][(loopPc # "idle" /\ calls'["stopListeners"] # calls["stopListeners"]) =>
             (loopPc = "shutdown" /\ reloadPc = "idle")]_vars
    /\ [][calls'["Reload"] # calls["Reload"] => (loopPc = "top" /\ reloadPc = "idle")]_vars

\* A shutdown signal has arrived while the reload handler is invoking the
\* callbacks, and waits.
C24_Witness ==
    /\ loopPc = "sighup"
    /\ reloadPc = "ranging"
    /\ invoked # <<>>
    /\ Has(pending, "shutdown")

\* C25: the event loop takes the triggers in the order in which they became
\* ready: a signal taken from its channel is the one that has waited longest,
\* so that a reload signal that became ready before a shutdown signal is
\* handled before it.  The select statement picks among the ready cases at
\* random, so the code does not keep this order.
C25_TriggersInArrivalOrder ==
    [][\A sig \in Signals :
          (/\ ~shutdownClosed
           /\ Has(pending, sig)
           /\ Len(pending') < Len(pending)
           /\ pending' = Without(pending, sig)) => Head(pending) = sig]_vars

\* The level names that the specification lists as recognized.
Vocabulary ==
    { <<"t", "r", "a", "c", "e">>, <<"d", "e", "b", "u", "g">>, <<"i", "n", "f", "o">>,
      <<"n", "o", "t", "i", "c", "e">>, <<"w", "a", "r", "n">>,
      <<"w", "a", "r", "n", "i", "n", "g">>, <<"e", "r", "r">>,
      <<"e", "r", "r", "o", "r">> }

\* The reload handler has just been entered by this step.
SighupTaken == calls'["<-SighupCh"] = calls["<-SighupCh"] + 1

\* C26: on a reload that loaded a configuration with a non-empty LogLevel,
\* the level is trimmed and lower-cased; if it is one of trace, debug, info,
\* notice, warn, warning, err, error then SetLogLevel is called once with
\* the level it maps to; for any other value SetLogLevel is not called and
\* the levels of the loggers are unchanged; either way the callbacks run.
\* The code also applies Info for a value that is only whitespace.
C26_LogLevelMapping ==
    [][(SighupTaken /\ newConf'.loaded /\ newConf'.LogLevel # <<>>) =>
          LET configLogLevel == ToLower(TrimSpace(newConf'.LogLevel)) IN
          /\ calls'["Reload"] = calls["Reload"] + 1
          /\ IF configLogLevel \in Vocabulary
             THEN /\ calls'["SetLogLevel"] = calls["SetLogLevel"] + 1
                  /\ \A i \in 1..Len(AllLoggers') :
                        AllLoggers'[i].level = LevelOf(configLogLevel)
             ELSE /\ calls'["SetLogLevel"] = calls["SetLogLevel"]
                  /\ AllLoggers' = AllLoggers]_vars

\* The identities of the loggers of a collection, in its order.
LoggerIds(loggers) == [i \in 1..Len(loggers) |-> loggers[i].id]

\* C27: when SetLogLevel(level) has returned, every logger of AllLoggers has
\* the level `level`, the last as well as the first; SetLevel has been called
\* on the loggers one by one in the order of the collection, each once; and
\* the collection holds the same loggers in the same order as before the
\* call, during the call as well as after it.  What the reload handler applies
\* in one step, SetLogLevel(before, level), is what the loop has produced.
C27_SetLogLevelReachesEveryLogger ==
    /\ levelCall.pc # "idle" => LoggerIds(AllLoggers) = LoggerIds(levelCall.before)
    /\ levelCall.pc = "ranging" =>
          /\ Len(levelCall.order) = levelCall.idx - 1
          /\ levelCall.order = SubSeq(LoggerIds(levelCall.before), 1, Len(levelCall.order))
          /\ \A i \in 1..Len(AllLoggers) :
                AllLoggers[i].level = IF i <= Len(levelCall.order)
                                      THEN levelCall.level
                                      ELSE levelCall.before[i].level
    /\ levelCall.pc = "returned" =>
          /\ \A i \in 1..Len(AllLoggers) : AllLoggers[i].level = levelCall.level
          /\ levelCall.order = LoggerIds(levelCall.before)
          /\ AllLoggers = SetLogLevel(levelCall.before, levelCall.level)

\* SetLogLevel(Warn) has returned on a collection of three loggers that were
\* at Info, Error and Trace.
C27_Witness ==
    /\ levelCall.pc = "returned"
    /\ levelCall.level = "Warn"
    /\ Len(levelCall.before) = MaxLoggers + 1
    /\ levelCall.before[1].level = "Info"
    /\ levelCall.before[MaxLoggers].level = "Error"
    /\ levelCall.before[MaxLoggers + 1].level = "Trace"
    /\ levelCall.order = [i \in 1..(MaxLoggers + 1) |-> i]
    /\ \A i \in 1..Len(AllLoggers) : AllLoggers[i] = Logger(i, "Warn")

\* C28: Reload invokes the callbacks in the order of their registration,
\* under one key or under different listener keys: a callback registered
\* earlier (it has the smaller id) is never invoked after one registered
\* later.  The keys of ReloadFuncs are ranged over in an arbitrary order, so
\* the code keeps the order only among the callbacks of one key.
C28_InvokedInRegistrationOrder ==
    \A i \in 1..Len(invoked) : \A j \in 1..Len(invoked) :
        i < j => invoked[i] < invoked[j]

\* The ids of the callbacks registered under the listener keys.
UnderListenerKeys ==
    UNION { {ReloadFuncs[k][i].id : i \in 1..Len(ReloadFuncs[k])} : k \in ListenerKeys }

\* C29: Reload invokes only callbacks registered under keys that begin with
\* "listener|"; a callback under any other key is never invoked and adds
\* nothing to the collected errors, so that a Reload on a registry without
\* callbacks under listener keys returns nil.
C29_OnlyListenerKeysInvoked ==
    /\ \A i \in 1..Len(invoked) : invoked[i] \in UnderListenerKeys
    /\ \A i \in 1..Len(reloadErrors) : reloadErrors[i] \in UnderListenerKeys
    /\ (reloadResult.returned /\ UnderListenerKeys = {}) => reloadResult.errs = Nil

\* Reload has returned nil on a registry whose only callbacks, a failing one
\* among them, are under the other key.
C29_Witness ==
    /\ reloadResult.returned
    /\ reloadResult.errs = Nil
    /\ invoked = <<>>
    /\ UnderListenerKeys = {}
    /\ \E i \in 1..Len(ReloadFuncs[OtherKey]) : ReloadFuncs[OtherKey][i].kind = "fail"

\* The ids in the sequence q.
IdsIn(q) == {q[i] : i \in 1..Len(q)}

\* C30: Reload emits its acknowledgment on ReloadedCh only when every
\* selected callback has been invoked; the send does not block, so that
\* Reload goes on to return whether or not an observer is receiving, the
\* acknowledgment being dropped if none is; and it is emitted in the one
\* step that follows the range loop, hence at most once for each Reload.
C30_AckAfterCallbacksNonBlocking ==
    /\ []((reloadPc = "ranging" /\ KeyDone /\ keysLeft = {}) => ENABLED ReloadAck)
    /\ [](reloadPc = "acked" => ENABLED ReloadReturn)
    /\ [][(~acked /\ acked') =>
             /\ reloadPc = "ranging"
             /\ reloadPc' = "acked"
             /\ ~reloadResult.returned
             /\ IdsIn(invoked) = Participating
             /\ Len(invoked) = Cardinality(Participating)]_vars
    /\ [][reloadPc = "acked" => acked' = acked]_vars
    /\ [][(reloadPc = "acked" /\ reloadPc' # "acked") =>
             (reloadPc' = "idle" /\ reloadResult'.returned)]_vars
    /\ [][(~reloadResult.returned /\ reloadResult'.returned) =>
             (reloadPc = "acked" /\ IdsIn(invoked) = Participating)]_vars

\* A second Reload has invoked both callbacks and returned with its
\* acknowledgment dropped.
C30_Witness ==
    /\ calls["Reload"] = 2
    /\ reloadResult.returned
    /\ ~acked
    /\ Len(invoked) = 2

\* The lifecycle state of the supervisor, read off the position of Run and
\* of its event loop.
Lifecycle ==
    IF runPc = "returned" THEN "Terminated"
    ELSE IF loopPc = "idle" THEN "Initializing"
    ELSE IF loopPc = "shutdown" \/ shutdownTriggered THEN "ShuttingDown"
    ELSE "Running"

LifecycleRank(state) ==
    CASE state = "Initializing" -> 0
      [] state = "Running" -> 1
      [] state = "ShuttingDown" -> 2
      [] state = "Terminated" -> 3

\* C31: the lifecycle state only moves forward through Initializing,
\* Running, ShuttingDown, Terminated.  The event loop is running only when
\* every startup stage, the construction and the start of the controller
\* included, has succeeded; ShuttingDown is entered only from Running; and
\* a state that has been left is never entered again.
C31_LifecycleMovesForward ==
    /\ [][LifecycleRank(Lifecycle') >= LifecycleRank(Lifecycle)]_vars
    /\ [][(Lifecycle' = "ShuttingDown" /\ Lifecycle # "ShuttingDown") =>
             Lifecycle = "Running"]_vars
    /\ [][Lifecycle = "Running" => Lifecycle' \in {"Running", "ShuttingDown"}]_vars
    /\ [](Lifecycle = "Running" =>
             /\ Restrict(stages, StageSet) = StageOrder
             /\ controller.made
             /\ controller.listeners = "up"
             /\ calls["startListeners"] = 1
             /\ calls["stopListeners"] = 0
             /\ exitCode = NoExit)

\* Run has gone through all four states: it has returned after a shutdown
\* handled by the loop.
C31_Witness ==
    /\ Lifecycle = "Terminated"
    /\ Did("WaitForInterrupt")
    /\ shutdownTriggered
    /\ calls["Reload"] >= 1

\* This step takes a dump signal from SigUSR2Ch.
DumpTaken ==
    /\ Has(pending, "sigusr2")
    /\ Len(pending') < Len(pending)
    /\ pending' = Without(pending, "sigusr2")

\* C32: handling a dump signal changes no state of the supervisor: neither
\* Controller.Shutdown nor Reload nor SetLogLevel is called, the reload
\* registry and the levels of the loggers are as before, shutdownTriggered
\* stays false and the loop is back at its select.
C32_DumpChangesNothing ==
    [][DumpTaken =>
          /\ \A n \in CallNames \ {"Stack"} : calls'[n] = calls[n]
          /\ calls'["Stack"] = calls["Stack"] + 1
          /\ ReloadFuncs' = ReloadFuncs
          /\ AllLoggers' = AllLoggers
          /\ controller' = controller
          /\ reloadPc' = reloadPc
          /\ reloadPc = "idle"
          /\ ~shutdownTriggered
          /\ ~shutdownTriggered'
          /\ loopPc' = "top"
          /\ UNCHANGED <<cfgVars, runVars, lastBranch, newConf>>]_vars

\* A dump signal has been handled after a reload that changed the level,
\* and the loop waits again.
C32_Witness ==
    /\ calls["Stack"] = 1
    /\ calls["SetLogLevel"] = 1
    /\ \A i \in 1..Len(AllLoggers) : AllLoggers[i].level = "Debug"
    /\ pending = <<>>
    /\ arrived = MaxSignals
    /\ loopPc = "top"
    /\ ~shutdownTriggered

\* The path has the shape /v1/{org}/{project}/host-catalogs/{catalog_id}/hosts,
\* with a host id after it or not.
ClaimedShape(path) ==
    /\ Len(path) \in {6, 7}
    /\ path[1] = "v1"
    /\ path[4] = "host-catalogs"
    /\ path[6] = "hosts"

\* The operation the specification gives for a method on a path with or
\* without a host id.
ClaimedOp(method, withId) ==
    CASE method = "GET" /\ withId -> "GetHost"
      [] method = "GET" /\ ~withId -> "ListHosts"
      [] method = "POST" /\ ~withId -> "CreateHost"
      [] method = "PATCH" /\ withId -> "UpdateHost"
      [] method = "DELETE" /\ withId -> "DeleteHost"
      [] OTHER -> "none"

\* The parameters captured from a path of the claimed shape.
ClaimedParams(path) ==
    <<<<"org", <<path[2]>>>>, <<"project", <<path[3]>>>>, <<"catalog_id", <<path[5]>>>>>>
        \o (IF Len(path) = 7 THEN <<<<"id", <<path[7]>>>>>> ELSE <<>>)

\* C33: a request on a path of the shape
\* /v1/{org}/{project}/host-catalogs/{catalog_id}/hosts[/{id}] matches the
\* pattern registered for its operation: GET with an id is routed to GetHost,
\* GET without to ListHosts, POST without to CreateHost, PATCH with an id to
\* UpdateHost and DELETE with an id to DeleteHost, with org, project,
\* catalog_id and id captured from the path.  The registered patterns are
\* /v1/org/{org}/project/{project}/host_catalogs/{catalog_id}/hosts[/{id}],
\* which no path of the claimed shape matches.
C33_RoutesByMethodAndPath ==
    (/\ routed # NotRouted
     /\ ClaimedShape(request.path)
     /\ ClaimedOp(request.method, Len(request.path) = 7) # "none") =>
        /\ routed.op = ClaimedOp(request.method, Len(request.path) = 7)
        /\ routed.params = ClaimedParams(request.path)

\* C34: when the controller's Start fails inside Command.Start, Shutdown is
\* called exactly once as rollback and Start is not tried again; Command.Start
\* returns an error whether or not the rollback fails as well, so that Run
\* returns 1 and the event loop is never entered.  startListeners is called
\* at most once in a Run.
C34_FailedStartRolledBackOnce ==
    /\ calls["startListeners"] <= 1
    /\ "Error starting controller" \in uiErrors =>
          /\ calls["startListeners"] = 1
          /\ calls["stopListeners"] = 1
          /\ controller.listeners = "stopped"
          /\ runPc = "returned"
          /\ exitCode = 1
          /\ loopPc = "idle"
          /\ ~Did("WaitForInterrupt")
          /\ pending = <<>>
    /\ ("Error with controller shutdown" \in uiErrors /\ ~Did("WaitForInterrupt")) =>
          "Error starting controller" \in uiErrors

\* The start has failed and so has the rollback.
C34_Witness ==
    /\ uiErrors = {"Error starting controller", "Error with controller shutdown"}
    /\ calls["stopListeners"] = 1
    /\ exitCode = 1

\* Run has returned on the failure of a stage between listener setup and
\* the deferral of the shutdown actions.
FailedAfterListeners ==
    /\ runPc = "returned"
    /\ uiErrors \cap {"Error storing PID", "Error creating dev database container"} # {}

\* C35: if storing the PID file or creating the dev database fails, Run
\* returns 1 without any teardown: the shutdown actions have not been
\* deferred and none is run, Controller.Shutdown is not called, and the
\* listeners set up earlier in this Run are left as they are.
C35_NoTeardownBeforeDefer ==
    FailedAfterListeners =>
        /\ exitCode = 1
        /\ Did("SetupListeners")
        /\ ~deferred
        /\ shutdownFuncsRun = <<>>
        /\ calls["stopListeners"] = 0
        /\ controller = NoController
        /\ ~Did("Start")

\* The dev database could not be created after the listeners and the PID
\* file were set up.
C35_Witness ==
    /\ FailedAfterListeners
    /\ Did("StorePidFile")
    /\ Did("CreateDevDatabase")
    /\ uiErrors = {"Error creating dev database container"}
    /\ Len(Config.Listeners) = 2

\* C36: once the shutdown handler has run, the event loop handles no further
\* trigger: signals that are pending or arrive later stay where they are,
\* and neither Reload nor SetLogLevel nor a dump is invoked after the loop
\* has called Controller.Shutdown.
C36_NothingHandledAfterShutdown ==
    /\ [][shutdownTriggered =>
             /\ IsPrefix(pending, pending')
             /\ \A n \in CallNames : calls'[n] = calls[n]
             /\ AllLoggers' = AllLoggers
             /\ reloadPc' = "idle"
             /\ loopPc' \in {"top", "returned"}]_vars
    /\ [](shutdownTriggered => (calls["stopListeners"] = 1 /\ reloadPc = "idle"))

\* Run has returned after ShutdownCh was closed, with a reload signal still
\* waiting.
C36_Witness ==
    /\ runPc = "returned"
    /\ shutdownTriggered
    /\ shutdownClosed
    /\ Has(pending, "sighup")
    /\ calls["Reload"] = 0

\* Every logger has the level that the configuration loaded by the last
\* reload handler asks for.
NewLevelApplied ==
    \A i \in 1..Len(AllLoggers) :
        AllLoggers[i].level = LevelOf(ToLower(TrimSpace(newConf.LogLevel)))

\* C37: in a reload handling that applies a recognized level, SetLogLevel
\* has completed on all loggers before any callback is invoked: while Reload
\* runs, and on each step that invokes a callback, every logger has the new
\* level, and the levels do not change while Reload runs.
C37_LevelSetBeforeCallbacks ==
    /\ []((reloadPc # "idle" /\ reloadCaller = "loop" /\ lastBranch = "setlevel") =>
             NewLevelApplied)
    /\ [][(calls'["SetLogLevel"] # calls["SetLogLevel"]) =>
             (reloadPc = "idle" /\ invoked' = <<>>)]_vars
    /\ [][reloadPc # "idle" => AllLoggers' = AllLoggers]_vars

\* A callback has been invoked in a reload that raised the level from Info
\* to Error.
C37_Witness ==
    /\ reloadPc = "ranging"
    /\ reloadCaller = "loop"
    /\ lastBranch = "setlevel"
    /\ invoked # <<>>
    /\ AllLoggers # <<>>
    /\ \A i \in 1..Len(AllLoggers) : AllLoggers[i].level = "Error"

\* C38: on a reload, a loaded configuration with the empty LogLevel leaves
\* the level of every logger as it was and SetLogLevel is not called; one
\* whose LogLevel is not empty but only whitespace is trimmed to the empty
\* string and applied as Info.
C38_EmptyAndBlankLogLevel ==
    [][(SighupTaken /\ newConf'.loaded) =>
          /\ newConf'.LogLevel = <<>> =>
                /\ calls'["SetLogLevel"] = calls["SetLogLevel"]
                /\ AllLoggers' = AllLoggers
          /\ (newConf'.LogLevel # <<>> /\ TrimSpace(newConf'.LogLevel) = <<>>) =>
                /\ calls'["SetLogLevel"] = calls["SetLogLevel"] + 1
                /\ Len(AllLoggers') = Len(AllLoggers)
                /\ \A i \in 1..Len(AllLoggers') : AllLoggers'[i].level = "Info"]_vars

\* A second reload, with a LogLevel of a no-break space and a form feed, has
\* set the loggers to Info.
C38_Witness ==
    /\ newConf.loaded
    /\ newConf.LogLevel = <<"U+00A0", "\f">>
    /\ calls["SetLogLevel"] = 2
    /\ AllLoggers # <<>>
    /\ \A i \in 1..Len(AllLoggers) : AllLoggers[i].level = "Info"

\* The purpose list is exactly api, cluster, or api together with cluster.
PurposeSetValid(purpose) ==
    \/ Len(purpose) = 1 /\ purpose[1] \in {"api", "cluster"}
    \/ /\ Len(purpose) = 2
       /\ StrListContains(purpose, "api")
       /\ StrListContains(purpose, "cluster")

\* C39: the listener checks pass only if the purpose list of every listener,
\* an empty one having been replaced by api and cluster, is exactly api,
\* cluster, or both: a listener with three or more purposes makes them fail;
\* and every listener that passes counts for the api-found and cluster-found
\* flags.  The switch on len(Purpose) has no case for three or more
\* purposes, so such a listener is passed over: the checks do not fail on it
\* and it sets neither flag.
C39_OnlyValidPurposeSets ==
    (Did("ListenerChecks") /\ runPc = "SetupListeners") =>
        LET st == ListenerChecks(loadedListeners) IN
        /\ \A i \in 1..Len(Config.Listeners) :
              PurposeSetValid(Config.Listeners[i].Purpose)
        /\ st.foundAPI <=>
              \E i \in 1..Len(Config.Listeners) :
                  StrListContains(Config.Listeners[i].Purpose, "api")
        /\ st.foundCluster <=>
              \E i \in 1..Len(Config.Listeners) :
                  StrListContains(Config.Listeners[i].Purpose, "cluster")

====
